---- MODULE Spec2Model ----
(***************************************************************************)
(* Hierarchical chunking and auto-merging retrieval engine.                *)
(*                                                                         *)
(*   SpecMerge    : AutoMergingRetriever.merge_chunks on a candidate list  *)
(*                  (src/src/retrieval/auto_merging_retriever.py)          *)
(*   SpecChunk    : chunk_text of one level strategy, loop iteration by    *)
(*                  loop iteration (src/src/data/chunker.py)               *)
(*   SpecDoc      : HierarchicalChunker.chunk_document, section by section *)
(*   SpecRetrieve : construction of a retriever and one call of retrieve   *)
(*                  (src/src/retrieval/hierarchical_retriever.py,          *)
(*                  summary_retriever.py)                                  *)
(*   SpecIndex    : calls on the IndexManager singleton                    *)
(*                  (src/src/indexing/index_manager.py)                    *)
(*                                                                         *)
(* Scores are exact rationals <<numerator, denominator>>; a candidate's    *)
(* score s/100 is <<s, 1>>.  Python's None is NoneVal.                     *)
(*                                                                         *)
(* A text is a sequence of token runs <<lo, hi>>: the tokens lo..hi.       *)
(* Source tokens are numbered from 1; a join separator is a token of its   *)
(* own, JoinSep for "\n\n" and SpaceSep for " ".  Runs of source tokens    *)
(* that continue each other are fused, so equal texts are equal values.    *)
(***************************************************************************)
EXTENDS Integers, Sequences, FiniteSets, TLC

VARIABLES pc,
          \* merge_chunks: its arguments and its return value
          chunks, max_results, merged_results,
          \* chunk_text: the strategy, the text argument, the tokenizer's cost
          \* of a join separator, the loop position, the loop's locals
          \* (chunks, current_chunk, current_tokens) and the return value
          level, text, sep_cost, idx, st, result,
          \* chunk_document: the document, the position of the section loop,
          \* section_index, the structure under construction, and the outcome:
          \* the returned structure and the raised exception
          document, sec_pos, section_index, hierarchical_structure,
          doc_result, doc_error,
          \* retrieve: the retriever, its arguments (query, top_k, filters,
          \* start_level, use_time_rerank, use_section_rerank), its
          \* enable_auto_merge attribute, the collection as the query sees it
          \* (nearest first), the arguments of collection.query, the locals
          \* results, formatted_results and final_results, the return value
          \* and the raised exception; the constructor's collection
          \* argument, the embedding_fn attribute, and the number of calls
          \* made to the embedding function and to collection.query
          retriever, query, top_k, filters, start_level, use_time_rerank,
          use_section_rerank, enable_auto_merge, collection, store_request,
          results, formatted_results, final_results, retrieved, ret_error,
          collection_handle, embedding_fn, embedding_calls, store_calls,
          \* IndexManager: the number of objects that __new__ has created,
          \* the attributes of the singleton, the number of calls made so
          \* far, the last call with its outcome, and the methods called so far
          im_instances, index_manager, im_ops, im_last, im_called

merge_vars == <<chunks, max_results, merged_results>>
chunk_vars == <<level, text, idx, st, result>>
doc_vars == <<document, sec_pos, section_index, hierarchical_structure,
              doc_result, doc_error>>
ret_args == <<retriever, query, top_k, start_level, use_time_rerank,
              use_section_rerank, enable_auto_merge, collection>>
ret_obj == <<collection_handle, embedding_fn>>
ret_calls == <<embedding_calls, store_calls>>
ret_vars == <<ret_args, filters, store_request, results, formatted_results,
              final_results, retrieved, ret_error, ret_obj, ret_calls>>
im_vars == <<im_instances, index_manager, im_ops, im_last, im_called>>
vars == <<pc, sep_cost, merge_vars, chunk_vars, doc_vars, ret_vars, im_vars>>

NoneVal == "None"

(***************************************************************************)
(* Bounds of the model.                                                    *)
(***************************************************************************)
MaxCands == 3
MaxSegs == 3
MaxSections == 2

Positions == {0, 1, 2}
ScoreValues == {40, 90}
SectionIds == {"section_1", "unknown", NoneVal}

(***************************************************************************)
(* Python helpers.                                                         *)
(***************************************************************************)
\* list.sort(key=...) is a stable sort: the element at index i goes to rank
\* 1 + (number of elements that sort strictly before it, or compare equal
\* and stand earlier in the list).
\* section_chunks.sort(key=position_index)
sort_by_position(s) ==
    LET key(i) == s[i].metadata.position_index
        rank(i) == 1 + Cardinality({j \in 1..Len(s) :
                          key(j) < key(i) \/ (key(j) = key(i) /\ j < i)})
    IN  [k \in 1..Len(s) |-> s[CHOOSE i \in 1..Len(s) : rank(i) = k]]

\* the number of tokens of a text
RECURSIVE tok_len(_)
tok_len(t) == IF t = <<>> THEN 0 ELSE (t[1][2] - t[1][1] + 1) + tok_len(Tail(t))

\* string concatenation
cat(a, b) ==
    IF a = <<>> THEN b
    ELSE IF b = <<>> THEN a
    ELSE LET x == a[Len(a)]
             y == b[1]
         IN  IF x[1] > 0 /\ y[1] = x[2] + 1
             THEN SubSeq(a, 1, Len(a) - 1) \o << <<x[1], y[2]>> >> \o Tail(b)
             ELSE a \o b

\* tokens[:n]
RECURSIVE take(_, _)
take(t, n) ==
    IF n <= 0 \/ t = <<>> THEN <<>>
    ELSE LET k == t[1][2] - t[1][1] + 1
         IN  IF k <= n THEN <<t[1]>> \o take(Tail(t), n - k)
             ELSE << <<t[1][1], t[1][1] + n - 1>> >>

\* tokens[n:]
RECURSIVE drop(_, _)
drop(t, n) ==
    IF n <= 0 \/ t = <<>> THEN t
    ELSE LET k == t[1][2] - t[1][1] + 1
         IN  IF k <= n THEN drop(Tail(t), n - k)
             ELSE << <<t[1][1] + n, t[1][2]>> >> \o Tail(t)

\* sep.join(parts) on texts.
RECURSIVE Join(_, _)
Join(parts, sep) ==
    IF parts = <<>> THEN <<>>
    ELSE IF Len(parts) = 1 THEN parts[1]
    ELSE cat(cat(parts[1], sep), Join(Tail(parts), sep))

RECURSIVE SumScores(_)
SumScores(s) == IF s = <<>> THEN 0 ELSE s[1].score[1] + SumScores(Tail(s))

\* float comparison of two scores
ScoreLess(a, b) == a[1] * b[2] < b[1] * a[2]

\* the list left in the order of the section groups
sort_skipped(s) == s

\* merged_results.sort(key=score, reverse=True): stable, descending
sort_by_score_desc(s) ==
    LET rank(i) == 1 + Cardinality({j \in 1..Len(s) :
                          \/ ScoreLess(s[i].score, s[j].score)
                          \/ (~ScoreLess(s[j].score, s[i].score) /\ j < i)})
    IN  [k \in 1..Len(s) |-> s[CHOOSE i \in 1..Len(s) : rank(i) = k]]

(***************************************************************************)
(* AutoMergingRetriever                                                    *)
(***************************************************************************)
JoinSep == 0

\* chunk.get("metadata", {}).get("section_id", "unknown")
group_key(c) ==
    IF c.metadata.section_id = NoneVal THEN "unknown" ELSE c.metadata.section_id

\* the keys of the `sections` dict, in insertion order
RECURSIVE section_keys(_)
section_keys(cs) ==
    IF cs = <<>> THEN <<>>
    ELSE LET rest == section_keys(SubSeq(cs, 1, Len(cs) - 1))
             k == group_key(cs[Len(cs)])
         IN  IF \E i \in 1..Len(rest) : rest[i] = k THEN rest ELSE Append(rest, k)

\* sections[section_id] after section_chunks.sort(key=position_index)
sorted_section(cs, k) ==
    sort_by_position(SelectSeq(cs, LAMBDA c : group_key(c) = k))

create_merged_chunk_sum(cs, total_score) ==
    [id |-> cs[1].id,
     text |-> Join([i \in 1..Len(cs) |-> cs[i].text], << <<JoinSep, JoinSep>> >>),
     metadata |-> cs[1].metadata,
     score |-> <<total_score, 1>>,
     merged |-> TRUE,
     merged_count |-> Len(cs),
     merged_ids |-> [i \in 1..Len(cs) |-> cs[i].id]]

create_merged_chunk(cs, total_score) ==
    [id |-> cs[1].id,
     text |-> Join(SelectSeq([i \in 1..Len(cs) |-> cs[i].text],
                             LAMBDA t : t # <<>>), << <<JoinSep, JoinSep>> >>),
     metadata |-> cs[1].metadata,
     score |-> <<total_score, Len(cs)>>,
     merged |-> TRUE,
     merged_count |-> Len(cs),
     merged_ids |-> [i \in 1..Len(cs) |-> cs[i].id]]

\* the adjacency test of the inner while loop
adjacent_wide(current_chunk, current_pos, next_chunk) ==
    /\ next_chunk.metadata.position_index - current_pos <= 2
    /\ next_chunk.metadata.section_id = current_chunk.metadata.section_id

adjacent_any_section(current_chunk, current_pos, next_chunk) ==
    next_chunk.metadata.position_index - current_pos <= 1

adjacent(current_chunk, current_pos, next_chunk) ==
    /\ next_chunk.metadata.position_index - current_pos <= 1
    /\ next_chunk.metadata.section_id = current_chunk.metadata.section_id

\* the value of j when the inner while loop ends
RECURSIVE absorb_end(_, _, _, _)
absorb_end(cs, i, j, current_pos) ==
    IF j <= Len(cs) /\ adjacent(cs[i], current_pos, cs[j])
    THEN absorb_end(cs, i, j + 1, cs[j].metadata.position_index)
    ELSE j

RECURSIVE merge_from(_, _)
merge_from(cs, i) ==
    IF i > Len(cs) THEN <<>>
    ELSE LET j == absorb_end(cs, i, i + 1, cs[i].metadata.position_index)
             merged_chunks == SubSeq(cs, i, j - 1)
         IN  << IF Len(merged_chunks) > 1
                THEN create_merged_chunk(merged_chunks, SumScores(merged_chunks))
                ELSE cs[i] >>
             \o merge_from(cs, j)

\* a loop that stops one candidate early
merge_adjacent_short(cs) == merge_from(SubSeq(cs, 1, Len(cs) - 1), 1)

\* while i < len(chunks): ...
merge_adjacent_in_section(cs) == merge_from(cs, 1)

\* merged_results before the final sort: every section's results, in dict order
RECURSIVE section_results(_, _)
section_results(cs, keys) ==
    IF keys = <<>> THEN <<>>
    ELSE merge_adjacent_in_section(sorted_section(cs, keys[1]))
         \o section_results(cs, Tail(keys))

merge_chunks(cs, mr) ==
    IF cs = <<>> THEN <<>>
    ELSE LET sorted == sort_by_score_desc(section_results(cs, section_keys(cs)))
         IN  IF mr # <<>> /\ mr[1] # 0
             THEN SubSeq(sorted, 1, IF mr[1] < Len(sorted) THEN mr[1] ELSE Len(sorted))
             ELSE sorted

(***************************************************************************)
(* SpecMerge: one call of merge_chunks on an arbitrary candidate list.     *)
(***************************************************************************)
Candidate(i, sid, pos, sc) ==
    [id |-> i, text |-> << <<i, i>> >>,
     metadata |-> [section_id |-> sid, position_index |-> pos],
     score |-> <<sc, 1>>, merged |-> FALSE]

CandidateLists(longest) ==
    UNION {
      { [i \in 1..n |-> Candidate(i, f[i][1], f[i][2], f[i][3])] :
          f \in [1..n -> SectionIds \X Positions \X ScoreValues] }
      : n \in 0..longest }

\* max_results: << >> is None (the default), <<n>> the integer n
MaxResultsValues == {<<>>} \cup {<<n>> : n \in 0..MaxCands}

\* the variables of chunk_text, unused by merge_chunks
IdleChunk ==
    /\ level = "small" /\ text = [ws |-> FALSE, sents |-> <<>>]
    /\ idx = 0
    /\ st = [chunks |-> <<>>, current_chunk |-> <<>>, current_tokens |-> 0]
    /\ result = <<>>

\* the variables of chunk_document, unused by the other calls
IdleDoc ==
    /\ document = [sections |-> <<>>, text |-> [ws |-> FALSE, sents |-> <<>>]]
    /\ sec_pos = 0 /\ section_index = 0
    /\ hierarchical_structure = <<>>
    /\ doc_result = <<>> /\ doc_error = <<>>

\* the variables of retrieve, unused by the other calls
IdleRet ==
    /\ retriever = "hierarchical" /\ query = <<>> /\ top_k = <<>>
    /\ filters = <<>> /\ start_level = "small"
    /\ use_time_rerank = FALSE /\ use_section_rerank = FALSE
    /\ enable_auto_merge = FALSE /\ collection = <<>>
    /\ store_request = <<>> /\ results = <<>>
    /\ formatted_results = <<>> /\ final_results = <<>>
    /\ retrieved = <<>> /\ ret_error = <<>>
    /\ collection_handle = "None" /\ embedding_fn = "None"
    /\ embedding_calls = 0 /\ store_calls = 0

\* the attributes that IndexManager.__init__ sets; None is <<>>.
\* indexers_created and the two load counters count the work done on behalf
\* of the manager: indexers constructed by initialize, load_index calls
fresh_manager ==
    [ constructed |-> TRUE, initialized |-> FALSE, indices_loaded |-> FALSE,
      hierarchical_indexer |-> <<>>, summary_indexer |-> <<>>,
      indexers_created |-> 0, hierarchical_loads |-> 0, summary_loads |-> 0 ]

\* the object that __new__ returns, before __init__ has run on it
blank_manager == [fresh_manager EXCEPT !.constructed = FALSE]

IdleIndex ==
    /\ im_instances = 0 /\ index_manager = blank_manager
    /\ im_ops = 0 /\ im_last = <<>> /\ im_called = {}

InitMerge ==
    /\ pc = "call"
    /\ sep_cost = 0
    /\ IdleChunk /\ IdleDoc /\ IdleRet /\ IdleIndex
    /\ chunks \in CandidateLists(MaxCands)
    /\ max_results = <<>>
    /\ merged_results = <<>>

CallMergeChunks ==
    /\ pc = "call"
    /\ \E mr \in MaxResultsValues :
         /\ max_results' = mr
         /\ merged_results' = merge_chunks(chunks, mr)
    /\ pc' = "returned"
    /\ UNCHANGED <<chunks, sep_cost, im_vars, chunk_vars, doc_vars, ret_vars>>

NextMerge == CallMergeChunks

SpecMerge == InitMerge /\ [][NextMerge]_vars

(***************************************************************************)
(* Properties of merge_chunks.                                             *)
(***************************************************************************)
Range(s) == {s[i] : i \in 1..Len(s)}

\* the ids a result stands for (candidate ids are the input positions 1..n)
ids_of(r) == IF r.merged THEN r.merged_ids ELSE <<r.id>>

sec(i) == chunks[i].metadata.section_id
pos(i) == chunks[i].metadata.position_index

\* C1: every result of merge_chunks was merged from candidates of a single
\* section_id; no merge combines candidates of two different sections.
C1_MergeWithinOneSection ==
    pc = "returned" =>
      \A k \in 1..Len(merged_results) :
        \A a, b \in Range(ids_of(merged_results[k])) : sec(a) = sec(b)

\* a merge happened although the grouping put candidates with a missing
\* section_id and candidates of the section named "unknown" in one group,
\* next to each other
C1_Witness ==
    /\ pc = "returned"
    /\ \E k \in 1..Len(merged_results) : merged_results[k].merged
    /\ \E a, b \in 1..Len(chunks) :
         /\ sec(a) = NoneVal /\ sec(b) = "unknown"
         /\ pos(b) - pos(a) \in {0, 1}

\* C2: in every result, each absorbed candidate lies at most 1 above the
\* largest position absorbed before it; the absorbed candidates are a
\* contiguous run of the position-sorted section group, and the run ends at
\* the first candidate of that group that fails the test.
C2_MergeAdjacency ==
    pc = "returned" =>
      \A k \in 1..Len(merged_results) :
        LET ids == ids_of(merged_results[k])
            grp == sorted_section(chunks, group_key(chunks[ids[1]]))
        IN  \E p \in 1..Len(grp) :
              LET q == p + Len(ids) - 1 IN
              /\ q <= Len(grp)
              /\ \A t \in 1..Len(ids) : grp[p + t - 1].id = ids[t]
              /\ \A t \in 1..(Len(ids) - 1) :
                   /\ pos(ids[t + 1]) - pos(ids[t]) <= 1
                   /\ pos(ids[t + 1]) >= pos(ids[t])
              /\ q < Len(grp) =>
                   \/ grp[q + 1].metadata.position_index - pos(ids[Len(ids)]) > 1
                   \/ grp[q + 1].metadata.section_id # sec(ids[1])

\* a group with a gap: some candidates were merged and a candidate of the same
\* section lying more than 1 above all of them was left out
C2_Witness ==
    /\ pc = "returned"
    /\ \E k \in 1..Len(merged_results) :
         /\ merged_results[k].merged
         /\ \E c \in 1..Len(chunks) :
              /\ c \notin Range(merged_results[k].merged_ids)
              /\ sec(c) = merged_results[k].metadata.section_id
              /\ \A a \in Range(merged_results[k].merged_ids) : pos(c) - pos(a) > 1

\* the candidates of the group with key k, when their positions are
\* consecutive: in ascending position order
ascending(k) ==
    LET S == {i \in 1..Len(chunks) : group_key(chunks[i]) = k}
        lo == CHOOSE m \in {pos(i) : i \in S} : \A i \in S : m <= pos(i)
    IN  [t \in 1..Cardinality(S) |-> CHOOSE i \in S : pos(i) = lo + t - 1]

consecutive_group(k) ==
    LET S == {i \in 1..Len(chunks) : group_key(chunks[i]) = k} IN
    /\ Cardinality(S) >= 2
    /\ \A i, j \in S : sec(i) = sec(j) /\ (i # j => pos(i) # pos(j))
    /\ \A i, j \in S : pos(i) - pos(j) < Cardinality(S)

reference_merged(k) ==
    LET g == ascending(k)
        n == Len(g)
    IN  [id |-> g[1],
         text |-> Join([t \in 1..n |-> chunks[g[t]].text], << <<JoinSep, JoinSep>> >>),
         metadata |-> chunks[g[1]].metadata,
         merged |-> TRUE,
         merged_count |-> n,
         merged_ids |-> g]

RECURSIVE sum_of(_)
sum_of(S) == IF S = {} THEN 0
             ELSE LET i == CHOOSE x \in S : TRUE
                  IN  chunks[i].score[1] + sum_of(S \ {i})

SmallMin == 100
SmallMax == 200
MediumMin == 500
MediumMax == 800
LargeMin == 1500
LargeMax == 2000
OverlapPercent == 20
SpaceSep == -1

Levels == {"small", "medium", "large"}

min_tokens(lvl) ==
    CASE lvl = "small" -> SmallMin [] lvl = "medium" -> MediumMin [] lvl = "large" -> LargeMin

max_tokens(lvl) ==
    CASE lvl = "small" -> SmallMax [] lvl = "medium" -> MediumMax [] lvl = "large" -> LargeMax

\* target_tokens = (self.min_tokens + self.max_tokens) // 2
target_tokens(lvl) == (min_tokens(lvl) + max_tokens(lvl)) \div 2

\* re.sub(r'\s+', ' ', text), then re.sub(r'\n\s*\n', '\n', text), then strip()
normalize_text(t) ==
    LET one == [i \in 1..Len(t.sents) |-> [t.sents[i] EXCEPT !.brk = "space"]]
    IN  [i \in 1..Len(one) |->
           [one[i] EXCEPT !.brk = IF @ \in {"blank", "header"} THEN "newline" ELSE @]]

\* str.split / re.split at the breaks of one kind: at least one piece, each
\* piece a sequence of sentences
RECURSIVE split_on(_, _)
split_on(nt, kind) ==
    IF \E i \in 1..(Len(nt) - 1) : nt[i].brk = kind
    THEN LET i == CHOOSE k \in 1..(Len(nt) - 1) :
                      /\ nt[k].brk = kind
                      /\ \A j \in 1..(k - 1) : nt[j].brk # kind
         IN  <<SubSeq(nt, 1, i)>> \o split_on(SubSeq(nt, i + 1, Len(nt)), kind)
    ELSE <<nt>>

\* the tokens of a piece of text
RECURSIVE text_of(_)
text_of(piece) ==
    IF piece = <<>> THEN <<>> ELSE cat(piece[1].toks, text_of(Tail(piece)))

\* re.split(r'([.!?]\s+)', para), each sentence rejoined with its punctuation
sentences_of(piece) ==
    IF piece = <<>> THEN << <<>> >> ELSE [i \in 1..Len(piece) |-> piece[i].toks]

RECURSIVE concat_all(_)
concat_all(ss) == IF ss = <<>> THEN <<>> ELSE ss[1] \o concat_all(Tail(ss))

split_text_intelligent(nt) ==
    LET paragraphs == split_on(nt, "blank")
        segments == concat_all([i \in 1..Len(paragraphs) |-> sentences_of(paragraphs[i])])
    IN  SelectSeq(segments, LAMBDA seg : seg # <<>>)

\* len(self.tokenizer.encode(text))
count_tokens(t) == tok_len(t)

\* ' '.join(current_chunk) for the small strategy, '\n\n'.join(current_chunk)
\* for the other two
join_buffer(parts, lvl) ==
    Join(parts, IF sep_cost = 0 THEN <<>>
                ELSE IF lvl = "small" THEN << <<SpaceSep, SpaceSep>> >>
                ELSE << <<JoinSep, JoinSep>> >>)

(***************************************************************************)
(* The chunking strategies.  s is the loop's locals: chunks, current_chunk *)
(* and current_tokens.                                                     *)
(***************************************************************************)
get_overlap_text_head(t) ==
    LET overlap_tokens == (tok_len(t) * OverlapPercent) \div 100
    IN  IF overlap_tokens > 0 THEN take(t, overlap_tokens) ELSE <<>>

\* int(len(tokens) * 0.2) tokens from the end, decoded
get_overlap_text(t) ==
    LET overlap_tokens == (tok_len(t) * OverlapPercent) \div 100
    IN  IF overlap_tokens > 0
        THEN drop(t, tok_len(t) - overlap_tokens)
        ELSE <<>>

create_chunk(t, index, lvl, md) ==
    [text |-> t, tokens |-> count_tokens(t), chunk_index |-> index,
     level |-> lvl, metadata |-> md]

empty_locals == [chunks |-> <<>>, current_chunk |-> <<>>, current_tokens |-> 0]

\* finalize the current chunk and start the next one with its overlap
emit_chunk(s, lvl, md) ==
    LET chunk_text == join_buffer(s.current_chunk, lvl)
        overlap_text == get_overlap_text(chunk_text)
    IN  [chunks |-> Append(s.chunks, create_chunk(chunk_text, Len(s.chunks), lvl, md)),
         current_chunk |-> IF overlap_text # <<>> THEN <<overlap_text>> ELSE <<>>,
         current_tokens |-> IF overlap_text # <<>> THEN count_tokens(overlap_text) ELSE 0]

\* the max check before a segment is added, then the append
add_segment(s, seg, lvl, md) ==
    LET segment_tokens == count_tokens(seg)
        s1 == IF s.current_tokens + segment_tokens > max_tokens(lvl)
                 /\ s.current_chunk # <<>>
              THEN emit_chunk(s, lvl, md)
              ELSE s
    IN  [s1 EXCEPT !.current_chunk = Append(@, seg),
                   !.current_tokens = @ + segment_tokens]

\* the target check after the segment was added
check_target(s, lvl, md) ==
    IF s.current_tokens >= target_tokens(lvl) THEN emit_chunk(s, lvl, md) ELSE s

\* the inner loops of the medium and large strategies: no target check
RECURSIVE add_segments(_, _, _, _)
add_segments(s, segs, lvl, md) ==
    IF segs = <<>> THEN s
    ELSE add_segments(add_segment(s, segs[1], lvl, md), Tail(segs), lvl, md)

\* one iteration of `for segment in segments`
small_step(s, segment, md) ==
    check_target(add_segment(s, segment, "small", md), "small", md)

\* one iteration of `for para in paragraphs`
medium_step(s, para, md) ==
    LET para_tokens == count_tokens(text_of(para))
    IN  check_target(
          IF para_tokens > max_tokens("medium")
          THEN add_segments(s, sentences_of(para), "medium", md)
          ELSE add_segment(s, text_of(para), "medium", md),
          "medium", md)

\* one iteration of `for section in sections`
large_step(s, section, md) ==
    LET section_tokens == count_tokens(text_of(section))
        paragraphs == split_on(section, "blank")
    IN  check_target(
          IF section_tokens > max_tokens("large")
          THEN add_segments(s, [i \in 1..Len(paragraphs) |-> text_of(paragraphs[i])],
                            "large", md)
          ELSE add_segment(s, text_of(section), "large", md),
          "large", md)

\* the list the strategy's outer loop runs over
loop_units(lvl, t) ==
    LET nt == normalize_text(t)
        sections == split_on(nt, "header")
    IN  CASE lvl = "small" -> split_text_intelligent(nt)
          [] lvl = "medium" -> split_on(nt, "blank")
          [] lvl = "large" -> IF Len(sections) = 1 THEN split_on(nt, "blank") ELSE sections

loop_step(lvl, s, unit, md) ==
    CASE lvl = "small" -> small_step(s, unit, md)
      [] lvl = "medium" -> medium_step(s, unit, md)
      [] lvl = "large" -> large_step(s, unit, md)

\* "Add final chunk if exists", and the return value
final_chunks_dropped(s, lvl, md) == s.chunks

final_chunks(s, lvl, md) ==
    IF s.current_chunk # <<>>
    THEN Append(s.chunks,
                create_chunk(join_buffer(s.current_chunk, lvl), Len(s.chunks), lvl, md))
    ELSE s.chunks

RECURSIVE run_loop(_, _, _, _)
run_loop(lvl, s, units, md) ==
    IF units = <<>> THEN s
    ELSE run_loop(lvl, loop_step(lvl, s, units[1], md), Tail(units), md)

\* ChunkingStrategy.chunk_text as a function
chunk_text(lvl, t, md) ==
    final_chunks(run_loop(lvl, empty_locals, loop_units(lvl, t), md), lvl, md)

(***************************************************************************)
(* SpecChunk: one call of chunk_text of one strategy, loop iteration by    *)
(* loop iteration.                                                         *)
(***************************************************************************)
\* sentence lengths in tokens: below the target, close to the maximum, above
\* it, and for the levels that split an oversized unit a short one and one
\* between the target and the maximum
seg_lens(lvl) ==
    CASE lvl = "small" -> {61, 190, 210}
      [] lvl = "medium" -> {40, 301, 750, 810}
      [] lvl = "large" -> {150, 850, 1800, 2001}

BreakKinds == {"space", "blank"}

RECURSIVE offset_of(_, _)
offset_of(f, i) == IF i = 1 THEN 0 ELSE offset_of(f, i - 1) + f[i - 1][1]

raw_text(f, n) ==
    [ws |-> FALSE,
     sents |-> [i \in 1..n |->
                  [toks |-> << <<offset_of(f, i) + 1, offset_of(f, i) + f[i][1]>> >>,
                   brk |-> f[i][2]]]]

RawTexts(lens) ==
    {[ws |-> TRUE, sents |-> <<>>]} \cup
    UNION { { raw_text(f, n) : f \in [1..n -> lens \X BreakKinds] } : n \in 0..MaxSegs }

\* the metadata argument of a direct call: {}
NoMetadata == <<>>

IdleMerge ==
    /\ chunks = <<>> /\ max_results = <<>> /\ merged_results = <<>>

InitChunk ==
    /\ pc = "loop"
    /\ IdleMerge /\ IdleDoc /\ IdleRet /\ IdleIndex
    /\ level \in Levels
    /\ sep_cost \in {0, 1}
    /\ text \in RawTexts(seg_lens(level))
    /\ idx = 0
    /\ st = empty_locals
    /\ result = <<>>

LoopStep ==
    /\ pc = "loop"
    /\ idx < Len(loop_units(level, text))
    /\ st' = loop_step(level, st, loop_units(level, text)[idx + 1], NoMetadata)
    /\ idx' = idx + 1
    /\ UNCHANGED <<pc, level, text, sep_cost, im_vars, result, merge_vars, doc_vars, ret_vars>>

ReturnChunks ==
    /\ pc = "loop"
    /\ idx = Len(loop_units(level, text))
    /\ result' = final_chunks(st, level, NoMetadata)
    /\ pc' = "returned"
    /\ UNCHANGED <<level, text, sep_cost, im_vars, idx, st, merge_vars, doc_vars, ret_vars>>

NextChunk == LoopStep \/ ReturnChunks

SpecChunk == InitChunk /\ [][NextChunk]_vars

(***************************************************************************)
(* Properties of chunk_text.                                               *)
(***************************************************************************)
\* the segments the strategy appends to its buffer, in source order: the
\* sentences (small), the paragraphs or an oversized paragraph's sentences
\* (medium), the sections or an oversized section's paragraphs (large)
RECURSIVE source_segments(_, _)
source_segments(lvl, units) ==
    IF units = <<>> THEN <<>>
    ELSE LET u == units[1]
             paragraphs == split_on(u, "blank")
             own == CASE lvl = "small" -> <<u>>
                      [] lvl = "medium" ->
                           IF count_tokens(text_of(u)) > MediumMax
                           THEN sentences_of(u) ELSE <<text_of(u)>>
                      [] lvl = "large" ->
                           IF count_tokens(text_of(u)) > LargeMax
                           THEN [i \in 1..Len(paragraphs) |-> text_of(paragraphs[i])]
                           ELSE <<text_of(u)>>
         IN  own \o source_segments(lvl, Tail(units))

segments_in == source_segments(level, loop_units(level, text))

\* how many leading tokens of chunk i are the overlap seeded from chunk i-1
seeded(i) ==
    IF i = 1 THEN 0 ELSE (tok_len(result[i - 1].text) * OverlapPercent) \div 100

RECURSIVE fuse(_)
fuse(t) == IF t = <<>> THEN <<>> ELSE cat(<<t[1]>>, fuse(Tail(t)))

\* chunk i without its seeded overlap and without join separators
content(i) ==
    fuse(SelectSeq(drop(result[i].text, seeded(i)), LAMBDA run : run[1] > 0))

is_prefix(a, b) == tok_len(a) <= tok_len(b) /\ take(b, tok_len(a)) = a

last_tokens(t, n) == drop(t, tok_len(t) - n)

\* C4: every emitted chunk has at most max_tokens tokens, unless its own
\* content is a single source segment that alone exceeds max_tokens.
C4_Budget ==
    pc = "returned" =>
      \A i \in 1..Len(result) :
        \/ result[i].tokens <= max_tokens(level)
        \/ \E k \in 1..Len(segments_in) :
             /\ count_tokens(segments_in[k]) > max_tokens(level)
             /\ content(i) = segments_in[k]

\* C5 as stated: the last ceil(20%) tokens of a chunk are a prefix of the
\* next chunk's text.
C5_OverlapCeil ==
    pc = "returned" =>
      \A i \in 1..(Len(result) - 1) :
        is_prefix(last_tokens(result[i].text,
                              (result[i].tokens * OverlapPercent + 99) \div 100),
                  result[i + 1].text)

\* C5 amended: the last floor(20%) tokens of a chunk are a prefix of the next
\* chunk's text.
C5_OverlapFloor ==
    pc = "returned" =>
      \A i \in 1..(Len(result) - 1) :
        is_prefix(last_tokens(result[i].text,
                              (result[i].tokens * OverlapPercent) \div 100),
                  result[i + 1].text)

\* a chunk whose token count is no multiple of 5 is followed by a chunk that
\* holds more than the overlap
C5_Witness ==
    /\ pc = "returned"
    /\ \E i \in 1..(Len(result) - 1) :
         /\ result[i].tokens % 5 # 0
         /\ seeded(i + 1) > 0
         /\ result[i + 1].tokens > seeded(i + 1)

RECURSIVE contents_upto(_)
contents_upto(n) == IF n = 0 THEN <<>> ELSE cat(contents_upto(n - 1), content(n))

\* C6: the chunks in chunk_index order, each without its seeded overlap,
\* concatenate to the section's normalized text: every source token, hence
\* every source segment, exactly once and in source order.
C6_Coverage ==
    pc = "returned" =>
      /\ contents_upto(Len(result)) = text_of(normalize_text(text))
      /\ \A i \in 1..Len(result) : result[i].chunk_index = i - 1

\* a text of several segments came back as at least three overlapping chunks
C6_Witness ==
    /\ pc = "returned"
    /\ Len(segments_in) >= 3
    /\ Len(result) >= 3
    /\ \A i \in 2..Len(result) : seeded(i) > 0

\* C7: chunk_text on an empty or whitespace-only text returns no chunk.
C7_EmptyTextNoChunks ==
    (pc = "returned" /\ text.sents = <<>>) => result = <<>>

(***************************************************************************)
(* HierarchicalChunker.chunk_document                                      *)
(*                                                                         *)
(* A section_id is a tuple: <<"section", n>> is the string "section_n",    *)
(* << >> a section_data without the key.  A chunk_id                       *)
(* f"{section_id}_{level}_{i}" is the tuple <<section_id, level, i>>.      *)
(* A section_data's `raises` says that a strategy's chunk_text raises on   *)
(* its text (the tokenizer rejects it).                                    *)
(***************************************************************************)
DocumentId == "document_1"
ClaimId == "claim_1"

\* document.sections if document.sections else [{"text": document.text, ...}]
doc_sections(doc) ==
    IF doc.sections # <<>> THEN doc.sections
    ELSE << [text |-> doc.text, section_id |-> <<"section", 1>>, raises |-> FALSE] >>

\* not section_text.strip()
skip_never(section_text) == FALSE

skip_section(section_text) == section_text.sents = <<>>

\* section_data.get("section_id", f"section_{section_index + 1}")
section_id_of(section_data, index) ==
    IF section_data.section_id = <<>> THEN <<"section", index + 1>>
    ELSE section_data.section_id

new_structure ==
    [claim_id |-> ClaimId, document_id |-> DocumentId, sections |-> <<>>,
     chunks |-> [small |-> <<>>, medium |-> <<>>, large |-> <<>>]]

section_metadata_of(section_id, index) ==
    [section_id |-> section_id, section_number |-> index,
     document_id |-> DocumentId, claim_id |-> ClaimId, parent_id |-> DocumentId]

\* "Add hierarchical metadata to chunks": for i, chunk in enumerate(...)
stamp_from_one(cs, section_id, lvl) ==
    [k \in 1..Len(cs) |->
       [text |-> cs[k].text, tokens |-> cs[k].tokens,
        chunk_index |-> cs[k].chunk_index, level |-> cs[k].level,
        metadata |-> cs[k].metadata,
        chunk_id |-> <<section_id, lvl, k>>,
        parent_id |-> section_id, section_id |-> section_id,
        document_id |-> DocumentId, claim_id |-> ClaimId]]

stamp(cs, section_id, lvl) ==
    [k \in 1..Len(cs) |->
       [text |-> cs[k].text, tokens |-> cs[k].tokens,
        chunk_index |-> cs[k].chunk_index, level |-> cs[k].level,
        metadata |-> cs[k].metadata,
        chunk_id |-> <<section_id, lvl, k - 1>>,
        parent_id |-> section_id, section_id |-> section_id,
        document_id |-> DocumentId, claim_id |-> ClaimId]]

\* the body of the section loop for a section that is kept and chunks well
with_section(hs, section_data, index) ==
    LET section_id == section_id_of(section_data, index - 1)
        md == section_metadata_of(section_id, index)
        small_chunks == chunk_text("small", section_data.text, md)
        medium_chunks == chunk_text("medium", section_data.text, md)
        large_chunks == chunk_text("large", section_data.text, md)
    IN  [hs EXCEPT
           !.chunks.small = @ \o stamp(small_chunks, section_id, "small"),
           !.chunks.medium = @ \o stamp(medium_chunks, section_id, "medium"),
           !.chunks.large = @ \o stamp(large_chunks, section_id, "large"),
           !.sections = Append(@,
               [section_id |-> section_id, section_number |-> index,
                document_id |-> DocumentId, claim_id |-> ClaimId,
                parent_id |-> DocumentId,
                chunk_counts |-> [small |-> Len(small_chunks),
                                  medium |-> Len(medium_chunks),
                                  large |-> Len(large_chunks)]])]

\* except Exception as e: raise ChunkingError(error_msg) from e
\* the outcome is <<return value, exception>>
swallow_exception(hs, e) == << <<hs>>, <<>> >>

on_exception(hs, e) == << <<>>, <<[type |-> "ChunkingError", cause |-> e]>> >>

(***************************************************************************)
(* SpecDoc: one call of chunk_document, section by section.                *)
(***************************************************************************)
DocTexts ==
    { [ws |-> FALSE, sents |-> <<>>],
      [ws |-> TRUE, sents |-> <<>>],
      raw_text(<< <<61, "space">> >>, 1),
      raw_text(<< <<61, "blank">>, <<190, "space">> >>, 2) }

DocSectionIds == { <<>>, <<"section", 1>>, <<"section", 2>> }

SectionData == [text : DocTexts, section_id : DocSectionIds, raises : BOOLEAN]

Documents(most) ==
    { [sections |-> <<>>, text |-> t] : t \in DocTexts } \cup
    UNION { { [sections |-> ss, text |-> [ws |-> FALSE, sents |-> <<>>]] :
                ss \in [1..n -> SectionData] } : n \in 1..most }

InitDoc ==
    /\ pc = "doc_loop"
    /\ IdleMerge /\ IdleChunk /\ IdleRet /\ IdleIndex
    /\ sep_cost \in {0, 1}
    /\ document \in Documents(MaxSections)
    /\ sec_pos = 0
    /\ section_index = 0
    /\ hierarchical_structure = new_structure
    /\ doc_result = <<>>
    /\ doc_error = <<>>

\* one iteration of `for section_data in sections`
SectionStep ==
    /\ pc = "doc_loop"
    /\ sec_pos < Len(doc_sections(document))
    /\ LET section_data == doc_sections(document)[sec_pos + 1] IN
       IF skip_section(section_data.text)
       THEN /\ sec_pos' = sec_pos + 1
            /\ UNCHANGED <<pc, section_index, hierarchical_structure,
                           doc_result, doc_error>>
       ELSE IF section_data.raises
       THEN \E lvl \in Levels :
              LET out == on_exception(hierarchical_structure,
                                      [section |-> sec_pos + 1, level |-> lvl])
              IN  /\ doc_result' = out[1]
                  /\ doc_error' = out[2]
                  /\ pc' = IF out[2] # <<>> THEN "doc_raised" ELSE "doc_returned"
                  /\ section_index' = section_index + 1
                  /\ UNCHANGED <<sec_pos, hierarchical_structure>>
       ELSE /\ section_index' = section_index + 1
            /\ hierarchical_structure' =
                 with_section(hierarchical_structure, section_data, section_index + 1)
            /\ sec_pos' = sec_pos + 1
            /\ UNCHANGED <<pc, doc_result, doc_error>>
    /\ UNCHANGED <<document, sep_cost, im_vars, merge_vars, chunk_vars, ret_vars>>

\* return hierarchical_structure
ReturnStructure ==
    /\ pc = "doc_loop"
    /\ sec_pos = Len(doc_sections(document))
    /\ doc_result' = <<hierarchical_structure>>
    /\ pc' = "doc_returned"
    /\ UNCHANGED <<document, sec_pos, section_index, hierarchical_structure,
                   doc_error, sep_cost, im_vars, merge_vars, chunk_vars, ret_vars>>

NextDoc == SectionStep \/ ReturnStructure

SpecDoc == InitDoc /\ [][NextDoc]_vars

(***************************************************************************)
(* Properties of chunk_document                                            *)
(***************************************************************************)
is_blank(section_text) == section_text.sents = <<>>

\* the input sections that carry text, in document order
retained(secs) == SelectSeq(secs, LAMBDA sd : ~is_blank(sd.text))

chunks_of(hs, lvl, k) ==
    SelectSeq(hs.chunks[lvl], LAMBDA c : c.metadata.section_number = k)

\* C8: a section whose text is empty or whitespace-only is skipped: it adds
\* no chunk at any level, is absent from the sections list and does not
\* advance the section counter, so that the retained sections are the
\* non-blank input sections in document order, numbered exactly 1..n (and a
\* default section id is built from that same counter).
C8_BlankSectionsSkipped ==
    pc \in {"doc_loop", "doc_returned"} =>
      LET hs == hierarchical_structure
          kept == retained(SubSeq(doc_sections(document), 1, sec_pos))
      IN  /\ section_index = Len(kept)
          /\ Len(hs.sections) = Len(kept)
          /\ \A k \in 1..Len(kept) :
               /\ hs.sections[k].section_number = k
               /\ hs.sections[k].section_id =
                    IF kept[k].section_id = <<>> THEN <<"section", k>>
                    ELSE kept[k].section_id
          /\ \A lvl \in Levels :
               /\ \A i \in 1..Len(hs.chunks[lvl]) :
                    /\ hs.chunks[lvl][i].metadata.section_number \in 1..Len(kept)
                    /\ hs.chunks[lvl][i].text # <<>>
               /\ \A k \in 1..Len(kept) :
                    Len(chunks_of(hs, lvl, k)) =
                      Len(chunk_text(lvl, kept[k].text, <<>>))

C8_Witness ==
    /\ pc = "doc_returned"
    /\ Len(document.sections) = 2
    /\ is_blank(document.sections[1].text)
    /\ document.sections[1].text.ws
    /\ ~is_blank(document.sections[2].text)
    /\ document.sections[2].section_id = <<>>
    /\ Len(doc_result[1].sections) = 1
    /\ doc_result[1].sections[1].section_number = 1
    /\ doc_result[1].chunks.small # <<>>

\* C9: in the structure under assembly and in the returned one, the chunks
\* of one section at one level carry chunk_index 0, 1, ..., n-1 in emission
\* order, chunk_id is (section_id, level, chunk_index), and parent_id and
\* section_id are the id of the owning section.
C9_ChunkIdentity ==
    pc \in {"doc_loop", "doc_returned"} =>
      LET hs == hierarchical_structure IN
      \A lvl \in Levels : \A k \in 1..Len(hs.sections) :
        LET cs == chunks_of(hs, lvl, k)
            owner == hs.sections[k].section_id
        IN  /\ Len(cs) = hs.sections[k].chunk_counts[lvl]
            /\ \A i \in 1..Len(cs) :
                 /\ cs[i].chunk_index = i - 1
                 /\ cs[i].level = lvl
                 /\ cs[i].chunk_id = <<owner, lvl, cs[i].chunk_index>>
                 /\ cs[i].parent_id = owner
                 /\ cs[i].section_id = owner

C9_Witness ==
    /\ pc = "doc_returned"
    /\ Len(doc_result[1].sections) = 2
    /\ Len(chunks_of(doc_result[1], "small", 2)) >= 2
    /\ chunks_of(doc_result[1], "small", 2)[2].chunk_id =
         <<doc_result[1].sections[2].section_id, "small", 1>>

raising(secs) == { k \in 1..Len(secs) : ~is_blank(secs[k].text) /\ secs[k].raises }

\* C10: when the segmentation of a section raises, chunk_document raises a
\* ChunkingError whose cause is that exception and returns nothing, however
\* many sections were chunked before; when no section raises it returns the
\* structure with every non-blank section in it.
C10_FailFast ==
    LET secs == doc_sections(document) IN
    /\ pc = "doc_raised" =>
         /\ doc_result = <<>>
         /\ Len(doc_error) = 1
         /\ doc_error[1].type = "ChunkingError"
         /\ doc_error[1].cause.section \in raising(secs)
         /\ \A k \in raising(secs) : doc_error[1].cause.section <= k
    /\ pc = "doc_returned" =>
         /\ raising(secs) = {}
         /\ doc_error = <<>>
         /\ doc_result = <<hierarchical_structure>>
         /\ Len(doc_result[1].sections) = Len(retained(secs))
    /\ pc = "doc_loop" => doc_result = <<>> /\ doc_error = <<>>

C10_Witness ==
    /\ pc = "doc_raised"
    /\ Len(hierarchical_structure.sections) = 1
    /\ hierarchical_structure.chunks.small # <<>>
    /\ doc_result = <<>>
    /\ doc_error[1].cause.level = "large"

(***************************************************************************)
(* Strings of the retrievers.                                              *)
(*                                                                         *)
(* A query is the sequence of its character codes.  A candidate's text is  *)
(* a text as above whose tokens are character codes, so that merge_chunks  *)
(* joins it like any text; JoinSep stands for the "\n\n" of a join.        *)
(***************************************************************************)
\* the characters of a text
RECURSIVE expand(_)
expand(t) ==
    IF t = <<>> THEN <<>>
    ELSE [k \in 1..(t[1][2] - t[1][1] + 1) |-> t[1][1] + k - 1] \o expand(Tail(t))

\* the text made of the characters s
RECURSIVE str(_)
str(s) == IF s = <<>> THEN <<>> ELSE cat(<< <<s[1], s[1]>> >>, str(Tail(s)))

is_digit(c) == c \in 48..57
is_alpha(c) == c \in 65..90 \/ c \in 97..122
\* \w
is_word(c) == is_digit(c) \/ is_alpha(c) \/ c = 95
\* \s (JoinSep is a pair of newlines)
is_space(c) == c \in {32, 9, 10, 13, JoinSep}
lower(c) == IF c \in 65..90 THEN c + 32 ELSE c

word_at(s, i) == i >= 1 /\ i <= Len(s) /\ is_word(s[i])
\* \b in front of position i
boundary(s, i) == word_at(s, i - 1) # word_at(s, i)

\* the length of the longest run of digits, letters, spaces from position i
RECURSIVE digit_run(_, _)
digit_run(s, i) ==
    IF i <= Len(s) /\ is_digit(s[i]) THEN 1 + digit_run(s, i + 1) ELSE 0

RECURSIVE alpha_run(_, _)
alpha_run(s, i) ==
    IF i <= Len(s) /\ is_alpha(s[i]) THEN 1 + alpha_run(s, i + 1) ELSE 0

RECURSIVE space_run(_, _)
space_run(s, i) ==
    IF i <= Len(s) /\ is_space(s[i]) THEN 1 + space_run(s, i + 1) ELSE 0

char_at(s, i, c) == i <= Len(s) /\ s[i] = c

\* r"\b\d{1,2}:\d{2}(?::\d{2})?\b" matched at position i: the position of
\* the last character of the match, 0 when there is none
time_match(s, i) ==
    LET d == digit_run(s, i)
        e == i + d + 2
    IN  IF /\ boundary(s, i) /\ d \in {1, 2} /\ char_at(s, i + d, 58)
           /\ digit_run(s, i + d + 1) >= 2
        THEN IF /\ char_at(s, e + 1, 58) /\ digit_run(s, e + 2) >= 2
                /\ boundary(s, e + 4)
             THEN e + 3
             ELSE IF boundary(s, e + 1) THEN e ELSE 0
        ELSE 0

\* r"\b\d{1,2}\s+[A-Za-z]{3,9}\s+\d{4}\b" matched at position i
date_match(s, i) ==
    LET d == digit_run(s, i)
        w1 == space_run(s, i + d)
        a == alpha_run(s, i + d + w1)
        w2 == space_run(s, i + d + w1 + a)
        y == i + d + w1 + a + w2
    IN  IF /\ boundary(s, i) /\ d \in {1, 2} /\ w1 >= 1 /\ a \in 3..9
           /\ w2 >= 1 /\ digit_run(s, y) >= 4 /\ boundary(s, y + 4)
        THEN y + 3
        ELSE 0

\* re.findall(time_pattern, query) from position i on
RECURSIVE findall_time(_, _)
findall_time(s, i) ==
    IF i > Len(s) THEN <<>>
    ELSE LET e == time_match(s, i)
         IN  IF e > 0 THEN <<SubSeq(s, i, e)>> \o findall_time(s, e + 1)
             ELSE findall_time(s, i + 1)

RECURSIVE findall_date(_, _)
findall_date(s, i) ==
    IF i > Len(s) THEN <<>>
    ELSE LET e == date_match(s, i)
         IN  IF e > 0 THEN <<SubSeq(s, i, e)>> \o findall_date(s, e + 1)
             ELSE findall_date(s, i + 1)

\* _extract_time_tokens: list({t.strip() for t in times + dates}); a match
\* neither starts nor ends with a space, and the order of the list, which
\* is the order of a set, is not used
extract_time_tokens(q) ==
    LET found == findall_time(q, 1) \o findall_date(q, 1)
    IN  {found[i] : i \in 1..Len(found)}

WordSection == <<115, 101, 99, 116, 105, 111, 110>>

\* r"\bsection\s+(\d+)\b", re.IGNORECASE, matched at position i: the
\* positions <<first, last>> of the group, << >> when there is no match
section_match(s, i) ==
    LET w == space_run(s, i + 7)
        d == digit_run(s, i + 7 + w)
    IN  IF /\ boundary(s, i) /\ i + 6 <= Len(s)
           /\ [k \in 1..7 |-> lower(s[i + k - 1])] = WordSection
           /\ w >= 1 /\ d >= 1 /\ boundary(s, i + 7 + w + d)
        THEN <<i + 7 + w, i + 6 + w + d>>
        ELSE <<>>

RECURSIVE findall_section(_, _)
findall_section(s, i) ==
    IF i > Len(s) THEN <<>>
    ELSE LET m == section_match(s, i)
         IN  IF m # <<>> THEN <<SubSeq(s, m[1], m[2])>> \o findall_section(s, m[2] + 1)
             ELSE findall_section(s, i + 1)

\* f"section_{m}": the section ids are strings of the model, so the format
\* is tabulated on the digit strings that the queries hold
format_section_id(m) ==
    CASE m = <<49>> -> "section_1"
      [] m = <<51>> -> "section_3"
      [] m = <<57>> -> "section_9"
      [] m = <<48, 51>> -> "section_03"

\* "Deduplicate while preserving order"
RECURSIVE unique(_)
unique(ids) ==
    IF ids = <<>> THEN <<>>
    ELSE LET rest == unique(SubSeq(ids, 1, Len(ids) - 1))
             sid == ids[Len(ids)]
         IN  IF \E i \in 1..Len(rest) : rest[i] = sid THEN rest ELSE Append(rest, sid)

\* _extract_section_ids
extract_section_ids(q) ==
    LET matches == findall_section(q, 1)
    IN  unique([i \in 1..Len(matches) |-> format_section_id(matches[i])])

\* token in combined
contains(hay, needle) ==
    \E i \in 1..(Len(hay) - Len(needle) + 1) :
        SubSeq(hay, i, i + Len(needle) - 1) = needle

\* query.strip()
RECURSIVE strip(_)
strip(s) ==
    IF s = <<>> THEN s
    ELSE IF is_space(s[1]) THEN strip(Tail(s))
    ELSE IF is_space(s[Len(s)]) THEN strip(SubSeq(s, 1, Len(s) - 1))
    ELSE s

\* RetrieverInterface.validate_query
validate_query(q) == q # <<>> /\ Len(strip(q)) # 0

(***************************************************************************)
(* The queries and the chunk texts of the model.                            *)
(***************************************************************************)
\* "What time did the collision occur on March 3rd?"
QueryCollision ==
    <<87, 104, 97, 116, 32, 116, 105, 109, 101, 32, 100, 105, 100, 32, 116,
      104, 101, 32, 99, 111, 108, 108, 105, 115, 105, 111, 110, 32, 111,
      99, 99, 117, 114, 32, 111, 110, 32, 77, 97, 114, 99, 104, 32, 51,
      114, 100, 63>>

\* "summarize section 3"
QuerySection3 ==
    <<115, 117, 109, 109, 97, 114, 105, 122, 101, 32, 115, 101, 99, 116,
      105, 111, 110, 32, 51>>

\* "at 08:20:05 on 3 March 2025"
QueryTimeDate ==
    <<97, 116, 32, 48, 56, 58, 50, 48, 58, 48, 53, 32, 111, 110, 32, 51,
      32, 77, 97, 114, 99, 104, 32, 50, 48, 50, 53>>

\* "compare section 1 and Section 3"
QueryTwoSections ==
    <<99, 111, 109, 112, 97, 114, 101, 32, 115, 101, 99, 116, 105, 111,
      110, 32, 49, 32, 97, 110, 100, 32, 83, 101, 99, 116, 105, 111, 110,
      32, 51>>

\* "section 9 at 8:20"
QuerySection9Time ==
    <<115, 101, 99, 116, 105, 111, 110, 32, 57, 32, 97, 116, 32, 56, 58,
      50, 48>>

\* "who paid"
QueryPlain ==
    <<119, 104, 111, 32, 112, 97, 105, 100>>

\* "  "
QueryBlank ==
    <<32, 32>>

\* "08:20:05 3 March 2025"
TextTimeDate ==
    <<48, 56, 58, 50, 48, 58, 48, 53, 32, 51, 32, 77, 97, 114, 99, 104, 32,
      50, 48, 50, 53>>

\* "hit at 08:20:05"
TextTime ==
    <<104, 105, 116, 32, 97, 116, 32, 48, 56, 58, 50, 48, 58, 48, 53>>

\* "rain"
TextRain ==
    <<114, 97, 105, 110>>

\* "paid 03:10"
TextPaid ==
    <<112, 97, 105, 100, 32, 48, 51, 58, 49, 48>>

(***************************************************************************)
(* HierarchicalRetriever and SummaryRetriever                              *)
(*                                                                         *)
(* A dict of filters is a function from its keys; None and {} are both the *)
(* function of no key.  An optional int is << >> (None) or <<n>>.          *)
(***************************************************************************)
TopKResults == 5
TimeBoost == 100
SectionBoost == 200
MultiplierRerank == 4
MultiplierPlain == 2
MaxTopK == 2

NoFilters == [k \in {} |-> NoneVal]

\* dict(d) with d[key] = v
set_key(d, key, v) == [k \in DOMAIN d \cup {key} |-> IF k = key THEN v ELSE d[k]]

\* d.get(key) of a dict whose values are strings
get(d, key) == IF key \in DOMAIN d THEN d[key] ELSE NoneVal

\* top_k = top_k or config.TOP_K_RESULTS
top_k_or_default(k) == IF k = <<>> \/ k[1] = 0 THEN TopKResults ELSE k[1]

\* results[:k]
slice(rs, k) == SubSeq(rs, 1, IF k < Len(rs) THEN k ELSE Len(rs))

\* "Prepare filters": <<query_filters, the caller's dict afterwards>>
prepare_filters_in_place(f, lvl) ==
    LET query_filters == IF "level" \notin DOMAIN f THEN set_key(f, "level", lvl) ELSE f
    IN  <<query_filters, query_filters>>

prepare_filters(f, lvl) ==
    LET copy == f
        query_filters == IF "level" \notin DOMAIN copy
                         THEN set_key(copy, "level", lvl) ELSE copy
    IN  <<query_filters, f>>

\* "Decide how many candidates to fetch BEFORE reranking/merging."
n_candidates(k, time_rerank, section_rerank) ==
    k * (IF time_rerank \/ section_rerank THEN MultiplierRerank ELSE MultiplierPlain)

\* SummaryRetriever: the where clause, section filter included
summary_where_first(q, f, section_rerank) ==
    LET section_ids == extract_section_ids(q)
    IN  IF section_rerank /\ Len(section_ids) >= 1
        THEN set_key(f, "section_id", section_ids[1])
        ELSE f

summary_where(q, f, section_rerank) ==
    LET section_ids == extract_section_ids(q)
    IN  IF section_rerank /\ Len(section_ids) = 1
        THEN set_key(f, "section_id", section_ids[1])
        ELSE f

\* SummaryRetriever: n_candidates
summary_n_candidates_wide(k, where_clause, section_rerank) ==
    IF section_rerank THEN k * MultiplierRerank ELSE k

summary_n_candidates(k, where_clause, section_rerank) ==
    IF section_rerank /\ get(where_clause, "section_id") \in {NoneVal, ""}
    THEN k * MultiplierRerank
    ELSE k

\* the vector store: the entries that satisfy every equality of the where
\* clause, nearest first, n_results of them at most, as lists per column
where_matches(meta, where) ==
    \A k \in DOMAIN where : k \in DOMAIN meta /\ meta[k] = where[k]

collection_query(coll, n_results, where) ==
    LET hits == slice(SelectSeq(coll, LAMBDA e : where_matches(e.metadata, where)),
                      n_results)
    IN  [ids |-> [i \in 1..Len(hits) |-> hits[i].id],
         documents |-> [i \in 1..Len(hits) |-> hits[i].document],
         metadatas |-> [i \in 1..Len(hits) |-> hits[i].metadata],
         distances |-> [i \in 1..Len(hits) |-> hits[i].distance]]

\* "Format initial results": score = 1.0 - distance, in hundredths
format_initial(res, with_merged) ==
    [i \in 1..Len(res.ids) |->
       LET r == [id |-> res.ids[i], text |-> res.documents[i],
                 metadata |-> res.metadatas[i],
                 score |-> <<100 - res.distances[i], 1>>]
       IN  IF with_merged THEN set_key(r, "merged", FALSE) ELSE r]

\* f"{text} {chunk_text}"
combined_text(res) == expand(res.text) \o <<32>> \o expand(res.metadata.chunk_text)

time_match_count(res, time_tokens) ==
    Cardinality({t \in time_tokens : contains(combined_text(res), t)})

boosted(score, boost) == <<score[1] + boost * score[2], score[2]>>

\* reranked.sort(key=time_reranked_score, reverse=True): stable, descending
sort_by_time_score_desc(s) ==
    LET key(i) == s[i].time_reranked_score
        rank(i) == 1 + Cardinality({j \in 1..Len(s) :
                          \/ ScoreLess(key(i), key(j))
                          \/ (~ScoreLess(key(j), key(i)) /\ j < i)})
    IN  [k \in 1..Len(s) |-> s[CHOOSE i \in 1..Len(s) : rank(i) = k]]

sort_by_section_score_desc(s) ==
    LET key(i) == s[i].section_reranked_score
        rank(i) == 1 + Cardinality({j \in 1..Len(s) :
                          \/ ScoreLess(key(i), key(j))
                          \/ (~ScoreLess(key(j), key(i)) /\ j < i)})
    IN  [k \in 1..Len(s) |-> s[CHOOSE i \in 1..Len(s) : rank(i) = k]]

\* one iteration of the loop of _rerank_by_time
time_scored_flat(res, time_tokens) ==
    set_key(set_key(res, "time_match_count", time_match_count(res, time_tokens)),
            "time_reranked_score",
            IF time_match_count(res, time_tokens) > 0
            THEN boosted(res.score, TimeBoost) ELSE res.score)

time_scored(res, time_tokens) ==
    LET match_count == time_match_count(res, time_tokens)
    IN  set_key(set_key(res, "time_match_count", match_count),
                "time_reranked_score", boosted(res.score, match_count * TimeBoost))

\* _rerank_by_time; k is << >> for top_k=None
rerank_by_time(q, rs, k) ==
    IF rs = <<>> THEN rs
    ELSE LET time_tokens == extract_time_tokens(q)
         IN  IF time_tokens = {}
             THEN IF k # <<>> /\ k[1] # 0 THEN slice(rs, k[1]) ELSE rs
             ELSE LET reranked == sort_by_time_score_desc(
                         [i \in 1..Len(rs) |-> time_scored(rs[i], time_tokens)])
                  IN  IF k # <<>> /\ k[1] # 0 THEN slice(reranked, k[1]) ELSE reranked

\* meta.get("section_id") or meta.get("section")
chunk_section_id(meta) ==
    IF get(meta, "section_id") \notin {NoneVal, ""} THEN meta.section_id
    ELSE get(meta, "section")

in_list(x, ids) == \E i \in 1..Len(ids) : ids[i] = x

\* one iteration of the loop of _rerank_by_section
section_scored_weak(res, section_ids) ==
    LET match_count == IF in_list(chunk_section_id(res.metadata), section_ids)
                       THEN 1 ELSE 0
    IN  set_key(set_key(res, "section_match", match_count = 1),
                "section_reranked_score", boosted(res.score, match_count * 50))

section_scored(res, section_ids) ==
    LET match_count == IF in_list(chunk_section_id(res.metadata), section_ids)
                       THEN 1 ELSE 0
    IN  set_key(set_key(res, "section_match", match_count = 1),
                "section_reranked_score",
                boosted(res.score, match_count * SectionBoost))

\* _rerank_by_section (the same code in both retrievers)
rerank_by_section(q, rs, k) ==
    IF rs = <<>> THEN rs
    ELSE LET section_ids == extract_section_ids(q)
         IN  IF section_ids = <<>>
             THEN IF k # <<>> /\ k[1] # 0 THEN slice(rs, k[1]) ELSE rs
             ELSE LET reranked == sort_by_section_score_desc(
                         [i \in 1..Len(rs) |-> section_scored(rs[i], section_ids)])
                  IN  IF k # <<>> /\ k[1] # 0 THEN slice(reranked, k[1]) ELSE reranked

\* formatted_results[:top_k]
truncate_none(rs, k) == rs

truncate(rs, k) == slice(rs, k)

\* RetrieverInterface.format_results(results, include_metadata=True)
format_results(rs) ==
    [i \in 1..Len(rs) |->
       [text |-> rs[i].text, score |-> rs[i].score, id |-> rs[i].id,
        metadata |-> rs[i].metadata]]

(***************************************************************************)
(* SpecRetrieve: one call of HierarchicalRetriever.retrieve or of          *)
(* SummaryRetriever.retrieve, step by step.                                *)
(***************************************************************************)
\* create_hierarchical_metadata: an entry of the hierarchical collection
HierarchicalEntry(i, t, sid, p, lvl) ==
    [id |-> i, document |-> str(t),
     metadata |-> [chunk_id |-> i, level |-> lvl, document_id |-> DocumentId,
                   chunk_text |-> str(t), parent_id |-> sid, section_id |-> sid,
                   section |-> sid, claim_id |-> ClaimId, position_index |-> p]]

\* create_summary_metadata: an entry of the summary collection; a document
\* summary has no section_id
SummaryEntry(i, t, sid, lvl) ==
    IF sid = NoneVal
    THEN [id |-> i, document |-> str(t),
          metadata |-> [chunk_id |-> i, summary_level |-> lvl, chunk_text |-> str(t),
                        document_id |-> DocumentId, claim_id |-> ClaimId]]
    ELSE [id |-> i, document |-> str(t),
          metadata |-> [chunk_id |-> i, summary_level |-> lvl, chunk_text |-> str(t),
                        section_id |-> sid,
                        document_id |-> DocumentId, claim_id |-> ClaimId]]

HierarchicalIndex ==
    << HierarchicalEntry("section_1_small_0", TextRain, "section_1", 0, "small"),
       HierarchicalEntry("section_1_small_1", TextTime, "section_1", 1, "small"),
       HierarchicalEntry("section_3_small_0", TextTimeDate, "section_3", 0, "small"),
       HierarchicalEntry("section_3_medium_0", TextPaid, "section_3", 0, "medium") >>

SummaryIndex ==
    << SummaryEntry("summary_section_1", TextRain, "section_1", "section"),
       SummaryEntry("summary_section_3", TextTime, "section_3", "section"),
       SummaryEntry("summary_chunk_3", TextTimeDate, "section_3", "chunk"),
       SummaryEntry("summary_document", TextPaid, NoneVal, "document") >>

\* the distances of a query to the entries, nearest first
DistanceProfiles == { <<10, 10, 60, 90>> }

Orderings(n) == { f \in [1..n -> 1..n] : \A i, j \in 1..n : i # j => f[i] # f[j] }

\* the collection as one query sees it: its entries sorted by distance
Collections(index) ==
    { [i \in 1..Len(index) |-> set_key(index[f[i]], "distance", d[i])] :
        f \in Orderings(Len(index)), d \in DistanceProfiles }

Queries == { QueryCollision, QuerySection3, QueryTimeDate, QueryTwoSections,
             QuerySection9Time, QueryPlain, QueryBlank }

TopKValues == { <<>> } \cup { <<n>> : n \in 1..MaxTopK }

HierarchicalFilters ==
    { NoFilters, [level |-> "medium"], [section_id |-> "section_1"] }

SummaryFilters ==
    { NoFilters, [summary_level |-> "section"], [section_id |-> "section_1"] }

\* the exceptions of the retrieval layer: raise RetrievalError(msg) and
\* raise RetrievalError(msg) from e
retrieval_error(cause) == [type |-> "RetrievalError", cause |-> cause]

collection_never_rejected(handle) == FALSE

\* if collection is None: raise RetrievalError(...)
collection_rejected(handle) == handle = NoneVal

swallow_retrieve_exception(cause) ==
    [raised |-> <<>>, returned |-> << <<>> >>]

\* except Exception as e: ... raise RetrievalError(error_msg) from e
on_retrieve_exception(cause) ==
    [raised |-> <<retrieval_error(cause)>>, returned |-> <<>>]

CollectionHandles == { NoneVal, "collection" }

InitRetrieve ==
    /\ pc = "ret_new"
    /\ sep_cost = 0
    /\ IdleChunk /\ IdleDoc /\ IdleMerge /\ IdleIndex
    /\ retriever \in {"hierarchical", "summary"}
    /\ enable_auto_merge \in IF retriever = "hierarchical" THEN BOOLEAN ELSE {FALSE}
    /\ collection_handle \in CollectionHandles
    /\ embedding_fn = NoneVal
    /\ embedding_calls = 0 /\ store_calls = 0
    /\ query = <<>> /\ top_k = <<>> /\ filters = <<>> /\ start_level = "small"
    /\ use_time_rerank = FALSE /\ use_section_rerank = FALSE
    /\ collection = <<>>
    /\ store_request = <<>> /\ results = <<>>
    /\ formatted_results = <<>> /\ final_results = <<>>
    /\ retrieved = <<>> /\ ret_error = <<>>

\* __init__ of the two retrievers: the collection check, then the creation
\* of the embedding function, which may raise
Construct ==
    /\ pc = "ret_new"
    /\ IF collection_rejected(collection_handle)
       THEN /\ ret_error' = <<retrieval_error(NoneVal)>>
            /\ pc' = "ret_rejected"
            /\ UNCHANGED embedding_fn
       ELSE \E created \in BOOLEAN :
              IF created
              THEN /\ embedding_fn' = "OpenAIEmbedding"
                   /\ pc' = "ret_ready"
                   /\ UNCHANGED ret_error
              ELSE /\ ret_error' = <<retrieval_error("embedding_init")>>
                   /\ pc' = "ret_rejected"
                   /\ UNCHANGED embedding_fn
    /\ UNCHANGED <<ret_args, filters, store_request, results, formatted_results,
                   final_results, retrieved, collection_handle, ret_calls,
                   sep_cost, im_vars, merge_vars, chunk_vars, doc_vars>>

\* a call of retrieve on the constructed retriever, with its arguments and
\* the collection as this query sees it
Call ==
    /\ pc = "ret_ready"
    /\ query' \in Queries
    /\ top_k' \in TopKValues
    /\ use_section_rerank' \in BOOLEAN
    /\ IF retriever = "hierarchical"
       THEN /\ filters' \in HierarchicalFilters
            /\ start_level' \in {"small", "medium"}
            /\ use_time_rerank' \in BOOLEAN
            /\ collection' \in Collections(HierarchicalIndex)
       ELSE /\ filters' \in SummaryFilters
            /\ start_level' = "small"
            /\ use_time_rerank' = FALSE
            /\ collection' \in Collections(SummaryIndex)
    /\ pc' = "ret_fetch"
    /\ UNCHANGED <<retriever, enable_auto_merge, store_request, results,
                   formatted_results, final_results, retrieved, ret_error,
                   ret_obj, ret_calls, sep_cost, im_vars, merge_vars, chunk_vars, doc_vars>>

FetchOutcomes == { "ok", "embedding_raises", "store_raises" }

\* retrieve up to and including "Format initial results"
Fetch ==
    /\ pc = "ret_fetch"
    /\ IF ~validate_query(query)
       THEN /\ ret_error' = <<retrieval_error(NoneVal)>>
            /\ pc' = "ret_raised"
            /\ UNCHANGED <<filters, store_request, results, formatted_results,
                           retrieved, ret_calls>>
       ELSE LET k == top_k_or_default(top_k)
                prepared == prepare_filters(filters, start_level)
                where == IF retriever = "hierarchical" THEN prepared[1]
                         ELSE summary_where(query, filters, use_section_rerank)
                n == IF retriever = "hierarchical"
                     THEN n_candidates(k, use_time_rerank, use_section_rerank)
                     ELSE summary_n_candidates(k, where, use_section_rerank)
                res == collection_query(collection, n, where)
            IN  /\ filters' = IF retriever = "hierarchical" THEN prepared[2] ELSE filters
                /\ embedding_calls' = embedding_calls + 1
                /\ \E outcome \in FetchOutcomes :
                     CASE outcome = "embedding_raises" ->
                            /\ ret_error' = on_retrieve_exception("embedding").raised
                            /\ retrieved' = on_retrieve_exception("embedding").returned
                            /\ pc' = IF ret_error' # <<>> THEN "ret_raised" ELSE "ret_returned"
                            /\ UNCHANGED <<store_request, results, formatted_results,
                                           store_calls>>
                       [] outcome = "store_raises" ->
                            /\ store_calls' = store_calls + 1
                            /\ store_request' = <<[n_results |-> n, where |-> where]>>
                            /\ ret_error' = on_retrieve_exception("store").raised
                            /\ retrieved' = on_retrieve_exception("store").returned
                            /\ pc' = IF ret_error' # <<>> THEN "ret_raised" ELSE "ret_returned"
                            /\ UNCHANGED <<results, formatted_results>>
                       [] outcome = "ok" ->
                            /\ store_calls' = store_calls + 1
                            /\ store_request' = <<[n_results |-> n, where |-> where]>>
                            /\ results' = res
                            /\ formatted_results' = format_initial(res, retriever = "hierarchical")
                            /\ pc' = IF retriever = "hierarchical" THEN "ret_time" ELSE "ret_section"
                            /\ UNCHANGED <<ret_error, retrieved>>
    /\ UNCHANGED <<ret_args, final_results, ret_obj, sep_cost, im_vars, merge_vars,
                   chunk_vars, doc_vars>>

\* if use_time_rerank and formatted_results: ...
TimePass ==
    /\ pc = "ret_time"
    /\ formatted_results' =
         IF use_time_rerank /\ formatted_results # <<>>
         THEN rerank_by_time(query, formatted_results, <<>>)
         ELSE formatted_results
    /\ pc' = "ret_section"
    /\ UNCHANGED <<ret_args, filters, store_request, results, final_results,
                   retrieved, ret_error, ret_obj, ret_calls, sep_cost, im_vars, merge_vars,
                   chunk_vars, doc_vars>>

\* if use_section_rerank and formatted_results: ...
SectionPass ==
    /\ pc = "ret_section"
    /\ formatted_results' =
         IF use_section_rerank /\ formatted_results # <<>>
         THEN rerank_by_section(query, formatted_results, <<>>)
         ELSE formatted_results
    /\ pc' = "ret_truncate"
    /\ UNCHANGED <<ret_args, filters, store_request, results, final_results,
                   retrieved, ret_error, ret_obj, ret_calls, sep_cost, im_vars, merge_vars,
                   chunk_vars, doc_vars>>

\* final_results = formatted_results[:top_k]
Truncate ==
    /\ pc = "ret_truncate"
    /\ final_results' = truncate(formatted_results, top_k_or_default(top_k))
    /\ pc' = "ret_merge"
    /\ UNCHANGED <<ret_args, filters, store_request, results, formatted_results,
                   retrieved, ret_error, ret_obj, ret_calls, sep_cost, im_vars, merge_vars,
                   chunk_vars, doc_vars>>

\* "Apply auto-merging if enabled" and return self.format_results(...);
\* chunks, max_results and merged_results are the call of merge_chunks
MergeAndReturn ==
    /\ pc = "ret_merge"
    /\ IF enable_auto_merge /\ Len(final_results) > 0
       THEN /\ chunks' = final_results
            /\ max_results' = <<top_k_or_default(top_k)>>
            /\ merged_results' = merge_chunks(final_results, <<top_k_or_default(top_k)>>)
            /\ final_results' = merged_results'
       ELSE UNCHANGED <<chunks, max_results, merged_results, final_results>>
    /\ retrieved' = <<format_results(final_results')>>
    /\ pc' = "ret_returned"
    /\ UNCHANGED <<ret_args, filters, store_request, results, formatted_results,
                   ret_error, ret_obj, ret_calls, sep_cost, im_vars, chunk_vars, doc_vars>>

NextRetrieve == Construct \/ Call \/ Fetch \/ TimePass \/ SectionPass \/ Truncate \/ MergeAndReturn

SpecRetrieve == InitRetrieve /\ [][NextRetrieve]_vars

(***************************************************************************)
(* Properties of the rerank passes                                         *)
(***************************************************************************)
ids_in(rs) == [i \in 1..Len(rs) |-> rs[i].id]
scores_in(rs) == [i \in 1..Len(rs) |-> rs[i].score]

\* no candidate holds a time token of the query (none at all when the query
\* has no token)
no_time_match(q, rs) ==
    \A i \in 1..Len(rs) : \A t \in extract_time_tokens(q) :
        ~contains(combined_text(rs[i]), t)

\* no candidate is of a section that the query references
no_section_match(q, rs) ==
    \A i \in 1..Len(rs) :
        ~in_list(get(rs[i].metadata, "section_id"), extract_section_ids(q))

\* C11: a time pass over candidates of which none holds a time token of the
\* query, and a section pass over candidates of which none is of a
\* referenced section, return the candidates in the same order with the
\* same scores.
C11_RerankNoMatchIdentity ==
    [][ /\ (pc = "ret_time" /\ use_time_rerank
              /\ no_time_match(query, formatted_results))
           => /\ ids_in(formatted_results') = ids_in(formatted_results)
              /\ scores_in(formatted_results') = scores_in(formatted_results)
        /\ (pc = "ret_section" /\ use_section_rerank
              /\ no_section_match(query, formatted_results))
           => /\ ids_in(formatted_results') = ids_in(formatted_results)
              /\ scores_in(formatted_results') = scores_in(formatted_results)
      ]_vars

\* the position of the candidate `id` in the answer of the store
fetched_pos(id) == CHOOSE i \in 1..Len(results.ids) : results.ids[i] = id

\* the number of time tokens of the query that occur in text + " " + chunk_text
tokens_found(res) ==
    Cardinality({t \in extract_time_tokens(query) :
        contains(expand(res.text) \o <<32>> \o expand(res.metadata.chunk_text), t)})

\* C12: when the query holds a time token, the time pass returns every
\* candidate, with adjusted score = base score + 1.0 for each token of the
\* query found in its text and chunk_text, in non-increasing order of the
\* adjusted score, candidates of equal adjusted score in their former order.
C12_TimePassOrder ==
    (pc = "ret_section" /\ retriever = "hierarchical" /\ use_time_rerank
       /\ extract_time_tokens(query) # {}) =>
      LET out == formatted_results IN
      /\ Len(out) = Len(results.ids)
      /\ {out[i].id : i \in 1..Len(out)} = {results.ids[i] : i \in 1..Len(results.ids)}
      /\ \A i \in 1..Len(out) :
           /\ out[i].score = <<100 - results.distances[fetched_pos(out[i].id)], 1>>
           /\ out[i].time_reranked_score =
                <<out[i].score[1] + 100 * tokens_found(out[i]), 1>>
      /\ \A i, j \in 1..Len(out) : i < j =>
           /\ out[i].time_reranked_score[1] >= out[j].time_reranked_score[1]
           /\ out[i].time_reranked_score[1] = out[j].time_reranked_score[1]
                => fetched_pos(out[i].id) < fetched_pos(out[j].id)

C12_Witness ==
    /\ pc = "ret_section" /\ retriever = "hierarchical" /\ use_time_rerank
    /\ Cardinality(extract_time_tokens(query)) = 2
    /\ Len(formatted_results) >= 3
    /\ formatted_results[1].time_match_count = 2
    /\ formatted_results[2].time_match_count = 1
    /\ formatted_results[3].time_match_count = 0
    /\ fetched_pos(formatted_results[1].id) = 3

\* the candidate's metadata.section_id is one of the ids the query references
referenced(res) == in_list(get(res.metadata, "section_id"), extract_section_ids(query))

\* C13: when the query references a section as "section N" (base scores
\* being within [0, 1]), after the section pass every candidate whose
\* metadata.section_id is referenced stands before every candidate whose
\* section_id is not.
C13_ReferencedSectionsFirst ==
    (pc = "ret_truncate" /\ use_section_rerank /\ extract_section_ids(query) # <<>>) =>
      /\ \A i \in 1..Len(formatted_results) :
           /\ formatted_results[i].score[1] >= 0
           /\ formatted_results[i].score[1] <= 100 * formatted_results[i].score[2]
      /\ \A i, j \in 1..Len(formatted_results) :
           (referenced(formatted_results[i]) /\ ~referenced(formatted_results[j]))
             => i < j

C13_Witness ==
    /\ pc = "ret_truncate" /\ use_section_rerank
    /\ query = QuerySection3
    /\ Len(formatted_results) >= 3
    /\ referenced(formatted_results[1])
    /\ ~referenced(formatted_results[2])
    /\ ScoreLess(formatted_results[1].score, formatted_results[2].score)
    /\ results.ids[1] = formatted_results[2].id

\* "08:20:05"
Time082005 ==
    <<48, 56, 58, 50, 48, 58, 48, 53>>

\* "3 March 2025"
Date3March2025 ==
    <<51, 32, 77, 97, 114, 99, 104, 32, 50, 48, 50, 53>>

\* the candidates of the scenario: the text holds "08:20:05" and the
\* metadata chunk_text holds "3 March 2025"
collision_candidates ==
    { i \in 1..Len(results.ids) :
        /\ contains(expand(results.documents[i]), Time082005)
        /\ contains(expand(results.metadatas[i].chunk_text), Date3March2025) }

has_key(rs, key) == \A i \in 1..Len(rs) : key \in DOMAIN rs[i]
lacks_key(rs, key) == \A i \in 1..Len(rs) : key \notin DOMAIN rs[i]

\* C15: HierarchicalRetriever.retrieve runs the time pass, then the section
\* pass, then the truncation to top_k, then the merge: merge_chunks is called
\* after the truncation only, on the truncated list, so that it gets at
\* most top_k candidates, and retrieve returns at most top_k results.
C15_PassesTruncationMerge ==
    (retriever = "hierarchical"
       /\ pc \in {"ret_time", "ret_section", "ret_truncate", "ret_merge", "ret_returned"}) =>
      LET k == IF top_k = <<>> THEN TopKResults ELSE top_k[1]
          kept == IF k < Len(formatted_results) THEN k ELSE Len(formatted_results)
      IN
      /\ pc = "ret_time" =>
           /\ lacks_key(formatted_results, "time_reranked_score")
           /\ lacks_key(formatted_results, "section_reranked_score")
      /\ pc = "ret_section" =>
           /\ lacks_key(formatted_results, "section_reranked_score")
           /\ ((use_time_rerank /\ extract_time_tokens(query) # {})
                 => has_key(formatted_results, "time_reranked_score"))
      /\ (pc = "ret_truncate" /\ use_section_rerank
            /\ extract_section_ids(query) # <<>>)
           => has_key(formatted_results, "section_reranked_score")
      /\ pc \in {"ret_time", "ret_section", "ret_truncate"} => final_results = <<>>
      /\ pc # "ret_returned" =>
           chunks = <<>> /\ max_results = <<>> /\ merged_results = <<>>
      /\ pc = "ret_merge" => final_results = SubSeq(formatted_results, 1, kept)
      /\ pc = "ret_returned" =>
           /\ Len(retrieved[1]) <= k
           /\ IF enable_auto_merge /\ formatted_results # <<>>
              THEN /\ chunks = SubSeq(formatted_results, 1, kept)
                   /\ Len(chunks) <= k
                   /\ max_results = <<k>>
              ELSE chunks = <<>>

C15_Witness ==
    /\ pc = "ret_returned" /\ retriever = "hierarchical" /\ enable_auto_merge
    /\ use_time_rerank /\ use_section_rerank
    /\ has_key(formatted_results, "time_reranked_score")
    /\ has_key(formatted_results, "section_reranked_score")
    /\ top_k = <<2>>
    /\ Len(formatted_results) = 3
    /\ Len(chunks) = 2
    /\ Len(retrieved[1]) = 1

\* C16: every result that HierarchicalRetriever.retrieve returns carries a
\* `merged` flag, which is true exactly for a result combined from two or
\* more chunks, and such a result carries merged_count and merged_ids too.
C16_ReturnedMergedFlag ==
    (pc = "ret_returned" /\ retriever = "hierarchical") =>
      \A i \in 1..Len(retrieved[1]) :
        LET combined == /\ "merged_ids" \in DOMAIN final_results[i]
                        /\ Len(final_results[i].merged_ids) >= 2
        IN  /\ "merged" \in DOMAIN retrieved[1][i]
            /\ retrieved[1][i].merged = combined
            /\ combined => /\ "merged_count" \in DOMAIN retrieved[1][i]
                           /\ "merged_ids" \in DOMAIN retrieved[1][i]

(***************************************************************************)
(* Properties of merge_chunks: the returned list                           *)
(***************************************************************************)
\* C17: merge_chunks returns the results of all section groups in one list
\* in non-increasing order of score, and a given max_results (any integer
\* >= 0) bounds the length of the returned list.
C17_SortedAndBounded ==
    pc = "returned" =>
      /\ \A i, j \in 1..Len(merged_results) :
           i < j => ~ScoreLess(merged_results[i].score, merged_results[j].score)
      /\ UNION {Range(ids_of(merged_results[x])) : x \in 1..Len(merged_results)}
           \subseteq {chunks[i].id : i \in 1..Len(chunks)}
      /\ max_results # <<>> => Len(merged_results) <= max_results[1]

(***************************************************************************)
(* Properties of the candidate pool and of the where clause                *)
(***************************************************************************)
\* top_k as the retrievers use it
effective_top_k == IF top_k = <<>> THEN TopKResults ELSE top_k[1]

\* a rerank pass is enabled for this call
rerank_enabled == use_time_rerank \/ use_section_rerank

\* the pool that the same call asks for when no rerank pass is enabled
plain_pool ==
    IF retriever = "hierarchical" THEN n_candidates(effective_top_k, FALSE, FALSE)
    ELSE summary_n_candidates(effective_top_k, filters, FALSE)

\* C18 as stated: both retrievers ask the store for more than top_k
\* candidates, and for more when a rerank pass is enabled than when none is.
C18_PoolExceedsTopK ==
    store_request # <<>> =>
      /\ store_request[1].n_results > effective_top_k
      /\ rerank_enabled => store_request[1].n_results > plain_pool

\* C18, amended: HierarchicalRetriever asks for 2 x top_k candidates without
\* a rerank pass and for 4 x top_k with one, always more than top_k;
\* SummaryRetriever asks for 4 x top_k when section reranking is enabled and
\* its where clause holds no section_id (none from the caller's filters,
\* none from a single section named by the query), and for exactly top_k
\* otherwise.
C18_PoolSizes ==
    store_request # <<>> =>
      LET n == store_request[1].n_results
          k == effective_top_k
      IN  IF retriever = "hierarchical"
          THEN /\ n = IF rerank_enabled THEN 4 * k ELSE 2 * k
               /\ n > k
          ELSE n = IF /\ use_section_rerank
                      /\ "section_id" \notin DOMAIN filters
                      /\ Len(extract_section_ids(query)) # 1
                   THEN 4 * k ELSE k

C18_Witness ==
    /\ pc = "ret_section" /\ retriever = "summary" /\ use_section_rerank
    /\ query = QuerySection3
    /\ top_k = <<2>>
    /\ store_request[1].n_results = 2
    /\ store_request[1].where.section_id = "section_3"
    /\ Len(formatted_results) = 2

\* C19: the where clause that HierarchicalRetriever.retrieve sends to the
\* store holds the key level, equal to the caller's level when the caller's
\* filters name one and to start_level otherwise, holds every key of the
\* caller's filters with the caller's value and no other key, and the
\* caller's filters are the same after the call as before.
C19_LevelFilterMerged ==
    [][ (pc = "ret_fetch" /\ retriever = "hierarchical" /\ pc' = "ret_time") =>
          LET where == store_request'[1].where IN
          /\ DOMAIN where = DOMAIN filters \cup {"level"}
          /\ where["level"] = IF "level" \in DOMAIN filters THEN filters["level"]
                              ELSE start_level
          /\ \A key \in DOMAIN filters : where[key] = filters[key]
          /\ DOMAIN filters' = DOMAIN filters
          /\ \A key \in DOMAIN filters : filters'[key] = filters[key]
      ]_vars

C19_Witness ==
    /\ pc = "ret_time" /\ retriever = "hierarchical"
    /\ DOMAIN filters = {"section_id"} /\ filters["section_id"] = "section_1"
    /\ start_level = "medium"
    /\ DOMAIN store_request[1].where = {"section_id", "level"}
    /\ store_request[1].where["level"] = "medium"
    /\ store_request[1].where["section_id"] = "section_1"
    /\ results.ids = <<>>

(***************************************************************************)
(* Properties of SummaryRetriever.retrieve with section reranking          *)
(***************************************************************************)
\* the section pass has given every candidate its boosted score and sorted
section_reranked(rs) ==
    /\ has_key(rs, "section_reranked_score")
    /\ \A i \in 1..Len(rs) :
         rs[i].section_reranked_score =
           <<rs[i].score[1] + (IF referenced(rs[i]) THEN 200 ELSE 0), 1>>
    /\ \A i, j \in 1..Len(rs) :
         i < j => rs[i].section_reranked_score[1] >= rs[j].section_reranked_score[1]

\* one referenced section: the store query is narrowed to it and the
\* results keep the order of the store
one_section_narrows ==
    Len(extract_section_ids(query)) = 1 =>
      /\ "section_id" \in DOMAIN store_request[1].where
      /\ store_request[1].where["section_id"] = extract_section_ids(query)[1]
      /\ \A key \in DOMAIN filters \ {"section_id"} :
           store_request[1].where[key] = filters[key]
      /\ pc \in {"ret_truncate", "ret_merge", "ret_returned"}
           => ids_in(formatted_results) = results.ids
      /\ pc = "ret_returned"
           => [i \in 1..Len(retrieved[1]) |-> retrieved[1][i].id]
                = SubSeq(results.ids, 1, Len(retrieved[1]))

\* C20 as stated: with section reranking, a query that references one
\* section narrows the store query to it and keeps the order of the store;
\* a query that references two or more sections adds no section filter and
\* has the boost-based rerank applied to a pool of 4 x top_k candidates.
C20_SummarySectionHandling ==
    (retriever = "summary" /\ use_section_rerank /\ store_request # <<>>) =>
      /\ one_section_narrows
      /\ Len(extract_section_ids(query)) >= 2 =>
           /\ DOMAIN store_request[1].where = DOMAIN filters
           /\ store_request[1].n_results = 4 * effective_top_k
           /\ pc \in {"ret_truncate", "ret_merge", "ret_returned"}
                => section_reranked(formatted_results)

\* C20, amended: as stated for one referenced section; for two or more, no
\* section filter is added and the boost-based rerank is applied, to a pool
\* of 4 x top_k candidates when the caller's filters hold no section_id and
\* of top_k candidates when they do.
C20_SummarySectionHandlingPool ==
    (retriever = "summary" /\ use_section_rerank /\ store_request # <<>>) =>
      /\ one_section_narrows
      /\ Len(extract_section_ids(query)) >= 2 =>
           /\ DOMAIN store_request[1].where = DOMAIN filters
           /\ \A key \in DOMAIN filters : store_request[1].where[key] = filters[key]
           /\ store_request[1].n_results =
                IF "section_id" \in DOMAIN filters THEN effective_top_k
                ELSE 4 * effective_top_k
           /\ pc \in {"ret_truncate", "ret_merge", "ret_returned"}
                => section_reranked(formatted_results)

C20_Witness ==
    /\ pc = "ret_returned" /\ retriever = "summary" /\ use_section_rerank
    /\ query = QueryTwoSections
    /\ top_k = <<2>>
    /\ DOMAIN filters = {}
    /\ store_request[1].n_results = 8
    /\ Len(formatted_results) = 4
    /\ results.ids[1] = "summary_document"
    /\ formatted_results[4].id = "summary_document"
    /\ Len(retrieved[1]) = 2


(***************************************************************************)
(* Properties of retriever construction and of failures in retrieve        *)
(***************************************************************************)
raised_type(err) == IF err = <<>> THEN NoneVal ELSE err[1].type

\* the constructor was given collection=None and has run
none_collection_constructed == collection_handle = NoneVal /\ pc # "ret_new"

\* C21 (as stated): constructing either retriever with collection=None is
\* rejected at construction with a ConfigurationError, before the embedding
\* function is created and before any query is made.
C21_NoneCollectionConfigurationError ==
    none_collection_constructed =>
        /\ pc = "ret_rejected"
        /\ raised_type(ret_error) = "ConfigurationError"
        /\ embedding_fn = NoneVal
        /\ embedding_calls = 0 /\ store_calls = 0

\* C21 (amended): constructing either retriever with collection=None is
\* rejected at construction with a RetrievalError that wraps no cause, before
\* the embedding function is created and before any query is made.
C21_NoneCollectionRejected ==
    none_collection_constructed =>
        /\ pc = "ret_rejected"
        /\ ret_error = <<retrieval_error(NoneVal)>>
        /\ embedding_fn = NoneVal
        /\ embedding_calls = 0 /\ store_calls = 0
        /\ store_request = <<>> /\ retrieved = <<>>

C21_Witness ==
    /\ pc = "ret_rejected" /\ collection_handle = NoneVal
    /\ raised_type(ret_error) = "RetrievalError"

\* C22: in retrieve the embedding call and the store query are each made at
\* most once; when either raises, retrieve raises a RetrievalError that wraps
\* the cause and returns no list, the store not being queried after a failed
\* embedding; a list is returned only after both calls succeeded; an empty or
\* whitespace-only query raises RetrievalError before either call.
C22_FailuresPropagateOnce ==
    /\ embedding_calls <= 1 /\ store_calls <= 1
    /\ store_calls <= embedding_calls
    /\ pc = "ret_raised" =>
         /\ raised_type(ret_error) = "RetrievalError"
         /\ retrieved = <<>> /\ final_results = <<>>
         /\ IF validate_query(query)
            THEN \/ /\ ret_error[1].cause = "embedding"
                    /\ embedding_calls = 1 /\ store_calls = 0
                 \/ /\ ret_error[1].cause = "store"
                    /\ embedding_calls = 1 /\ store_calls = 1
            ELSE /\ ret_error[1].cause = NoneVal
                 /\ embedding_calls = 0 /\ store_calls = 0
    /\ pc = "ret_returned" =>
         /\ ret_error = <<>> /\ retrieved # <<>>
         /\ validate_query(query)
         /\ embedding_calls = 1 /\ store_calls = 1 /\ results # <<>>

C22_Witness ==
    /\ pc = "ret_raised" /\ validate_query(query)
    /\ ret_error[1].cause = "store" /\ store_calls = 1 /\ retrieved = <<>>


(***************************************************************************)
(* IndexManager (src/indexing/index_manager.py) and the indexers' load and  *)
(* build (src/indexing/base_indexer.py).  A method is an operator from the  *)
(* manager's attributes and the environment's answers (is the              *)
(* configuration valid, does initialize_index succeed) to the attributes   *)
(* afterwards, the raised exception and the returned value.                *)
(***************************************************************************)
MaxOps == 5

indexing_error(cause) == [type |-> "IndexingError", cause |-> cause]

outcome(m, raised, returned) == [m |-> m, raised |-> raised, returned |-> returned]

\* BaseIndexer.__init__: self.collection = None
new_indexer == [collection |-> <<>>]

\* BaseIndexer.load_index: initialize_index sets the collection, or raises
\* before it does and load_index returns False
load_index(indexer, ok) ==
    IF ok THEN [indexer EXCEPT !.collection = <<"Collection">>] ELSE indexer

BuildOutcomes == { "ok", "init_fails", "store_fails" }

\* BaseIndexer.build_index: initialize_index, prepare_data, store_in_index
build_index(indexer, how) ==
    IF how = "init_fails" THEN indexer
    ELSE [indexer EXCEPT !.collection = <<"Collection">>]

\* IndexManager.__new__ and __init__
construct(instances, m) ==
    [ instances |-> IF instances = 0 THEN 1 ELSE instances,
      m |-> IF m.constructed THEN m ELSE fresh_manager ]

initialize(m, config_ok) ==
    IF ~config_ok
    THEN outcome(m, <<indexing_error("ConfigurationError")>>, <<>>)
    ELSE outcome([m EXCEPT !.hierarchical_indexer = <<new_indexer>>,
                           !.summary_indexer = <<new_indexer>>,
                           !.indexers_created = @ + 1,
                           !.initialized = TRUE],
                 <<>>, <<NoneVal>>)

\* if not self._initialized: self.initialize()
ensure_initialized(m, config_ok) ==
    IF m.initialized THEN outcome(m, <<>>, <<NoneVal>>) ELSE initialize(m, config_ok)

load_indices(m, config_ok, h_ok, s_ok) ==
    LET i == ensure_initialized(m, config_ok)
        m1 == i.m
        m2 == IF m1.hierarchical_indexer # <<>>
              THEN [m1 EXCEPT !.hierarchical_indexer = <<load_index(@[1], h_ok)>>,
                              !.hierarchical_loads = @ + 1]
              ELSE m1
        m3 == IF m2.summary_indexer # <<>>
              THEN [m2 EXCEPT !.summary_indexer = <<load_index(@[1], s_ok)>>,
                              !.summary_loads = @ + 1]
              ELSE m2
        loaded_any == \/ m1.hierarchical_indexer # <<>> /\ h_ok
                      \/ m2.summary_indexer # <<>> /\ s_ok
    IN  IF i.raised # <<>> THEN i
        ELSE IF m1.indices_loaded THEN outcome(m1, <<>>, <<TRUE>>)
        ELSE outcome([m3 EXCEPT !.indices_loaded = loaded_any], <<>>, <<loaded_any>>)

build_indices(m, config_ok, h_how, s_how) ==
    LET i == ensure_initialized(m, config_ok)
        m1 == i.m
        m2 == IF m1.hierarchical_indexer # <<>>
              THEN [m1 EXCEPT !.hierarchical_indexer = <<build_index(@[1], h_how)>>]
              ELSE m1
        m3 == IF m2.summary_indexer # <<>>
              THEN [m2 EXCEPT !.summary_indexer = <<build_index(@[1], s_how)>>]
              ELSE m2
    IN  IF i.raised # <<>> THEN i
        ELSE IF m1.hierarchical_indexer # <<>> /\ h_how # "ok"
        THEN outcome(m2, <<indexing_error("IndexingError")>>, <<>>)
        ELSE IF m2.summary_indexer # <<>> /\ s_how # "ok"
        THEN outcome(m3, <<indexing_error("IndexingError")>>, <<>>)
        ELSE outcome(m3, <<>>, <<TRUE>>)

rebuild_indices(m, config_ok, h_how, s_how) ==
    LET i == initialize(m, config_ok)
        b == build_indices(i.m, config_ok, h_how, s_how)
    IN  IF i.raised # <<>> THEN outcome(i.m, <<indexing_error("IndexingError")>>, <<>>)
        ELSE IF b.raised # <<>> THEN outcome(b.m, <<indexing_error("IndexingError")>>, <<>>)
        ELSE b

Indexes == { "hierarchical", "summary" }

indexer_of(m, which) ==
    IF which = "hierarchical" THEN m.hierarchical_indexer ELSE m.summary_indexer

\* get_hierarchical_collection and get_summary_collection
get_collection(m, which, config_ok, h_ok, s_ok, retry_ok) ==
    LET i == ensure_initialized(m, config_ok)
        l == IF i.m.indices_loaded THEN i
             ELSE load_indices(i.m, config_ok, h_ok, s_ok)
        m1 == l.m
        indexer == indexer_of(m1, which)
        retried == load_index(indexer[1], retry_ok)
        m2 == IF which = "hierarchical"
              THEN [m1 EXCEPT !.hierarchical_indexer = <<retried>>,
                              !.hierarchical_loads = @ + 1]
              ELSE [m1 EXCEPT !.summary_indexer = <<retried>>,
                              !.summary_loads = @ + 1]
    IN  IF i.raised # <<>> THEN i
        ELSE IF indexer = <<>> THEN outcome(m1, <<>>, <<NoneVal>>)
        ELSE IF indexer[1].collection # <<>> THEN outcome(m1, <<>>, indexer[1].collection)
        ELSE outcome(m2, <<>>, IF retry_ok THEN retried.collection ELSE <<NoneVal>>)

last_call(op, out) == <<[op |-> op, raised |-> out.raised, returned |-> out.returned]>>

InitIndex ==
    /\ pc = "index"
    /\ sep_cost = 0
    /\ IdleMerge /\ IdleChunk /\ IdleDoc /\ IdleRet
    /\ im_instances = 0 /\ index_manager = blank_manager
    /\ im_ops = 0 /\ im_last = <<>> /\ im_called = {}

idle_elsewhere == UNCHANGED <<pc, sep_cost, merge_vars, chunk_vars, doc_vars, ret_vars>>

\* IndexManager()
New ==
    /\ im_ops < MaxOps
    /\ im_instances' = construct(im_instances, index_manager).instances
    /\ index_manager' = construct(im_instances, index_manager).m
    /\ im_last' = <<[op |-> "IndexManager", raised |-> <<>>, returned |-> <<"instance">>]>>
    /\ im_called' = im_called \cup {"IndexManager"}
    /\ im_ops' = im_ops + 1
    /\ idle_elsewhere

Initialize ==
    /\ im_ops < MaxOps /\ im_instances > 0
    /\ \E config_ok \in BOOLEAN :
         LET out == initialize(index_manager, config_ok)
         IN  /\ index_manager' = out.m
             /\ im_last' = last_call("initialize", out)
    /\ im_called' = im_called \cup {"initialize"}
    /\ im_ops' = im_ops + 1
    /\ UNCHANGED im_instances
    /\ idle_elsewhere

LoadIndices ==
    /\ im_ops < MaxOps /\ im_instances > 0
    /\ \E config_ok, h_ok, s_ok \in BOOLEAN :
         LET out == load_indices(index_manager, config_ok, h_ok, s_ok)
         IN  /\ index_manager' = out.m
             /\ im_last' = last_call("load_indices", out)
    /\ im_called' = im_called \cup {"load_indices"}
    /\ im_ops' = im_ops + 1
    /\ UNCHANGED im_instances
    /\ idle_elsewhere

BuildIndices ==
    /\ im_ops < MaxOps /\ im_instances > 0
    /\ \E config_ok \in BOOLEAN, h_how, s_how \in BuildOutcomes :
         LET out == build_indices(index_manager, config_ok, h_how, s_how)
         IN  /\ index_manager' = out.m
             /\ im_last' = last_call("build_indices", out)
    /\ im_called' = im_called \cup {"build_indices"}
    /\ im_ops' = im_ops + 1
    /\ UNCHANGED im_instances
    /\ idle_elsewhere

RebuildIndices ==
    /\ im_ops < MaxOps /\ im_instances > 0
    /\ \E config_ok \in BOOLEAN, h_how, s_how \in BuildOutcomes :
         LET out == rebuild_indices(index_manager, config_ok, h_how, s_how)
         IN  /\ index_manager' = out.m
             /\ im_last' = last_call("rebuild_indices", out)
    /\ im_called' = im_called \cup {"rebuild_indices"}
    /\ im_ops' = im_ops + 1
    /\ UNCHANGED im_instances
    /\ idle_elsewhere

GetCollection ==
    /\ im_ops < MaxOps /\ im_instances > 0
    /\ \E which \in Indexes, config_ok, h_ok, s_ok, retry_ok \in BOOLEAN :
         LET out == get_collection(index_manager, which, config_ok, h_ok, s_ok, retry_ok)
         IN  /\ index_manager' = out.m
             /\ im_last' = last_call("get_collection", out)
    /\ im_called' = im_called \cup {"get_collection"}
    /\ im_ops' = im_ops + 1
    /\ UNCHANGED im_instances
    /\ idle_elsewhere

NextIndex ==
    New \/ Initialize \/ LoadIndices \/ BuildIndices \/ RebuildIndices \/ GetCollection

SpecIndex == InitIndex /\ [][NextIndex]_vars


(***************************************************************************)
(* Properties of the IndexManager singleton                                *)
(***************************************************************************)
only_called(ops) == im_called \subseteq ops

holds_collection(indexer) == indexer # <<>> /\ indexer[1].collection # <<>>

\* C23: all constructions of IndexManager yield the same instance, and over
\* any sequence of IndexManager(), initialize() and load_indices() calls the
\* indexers are created at most once and each index is loaded at most once.
C23_SingletonInitializesOnce ==
    only_called({"IndexManager", "initialize", "load_indices"}) =>
        /\ im_instances <= 1
        /\ index_manager.indexers_created <= 1
        /\ index_manager.hierarchical_loads <= 1
        /\ index_manager.summary_loads <= 1

\* C30: over any sequence of initialize(), load_indices(), build_indices()
\* and rebuild_indices() on the singleton, whenever load_indices() returns
\* True at least one of the manager's current indexers holds a collection.
C30_LoadedMeansCollection ==
    ( /\ only_called({"IndexManager", "initialize", "load_indices",
                      "build_indices", "rebuild_indices"})
      /\ im_last # <<>> /\ im_last[1].op = "load_indices"
      /\ im_last[1].returned = <<TRUE>> ) =>
        \/ holds_collection(index_manager.hierarchical_indexer)
        \/ holds_collection(index_manager.summary_indexer)


(***************************************************************************)
(* Properties of the segments that a chunk holds                           *)
(***************************************************************************)
\* the source tokens of a segment, without join separators
seg_size(seg) == tok_len(fuse(SelectSeq(seg, LAMBDA run : run[1] > 0)))

RECURSIVE seg_end(_)
seg_end(k) == IF k = 0 THEN 0 ELSE seg_end(k - 1) + seg_size(segments_in[k])

RECURSIVE chunk_end(_)
chunk_end(i) == IF i = 0 THEN 0 ELSE chunk_end(i - 1) + tok_len(content(i))

\* the source segments that were appended to the buffer of chunk i
segs_of(i) ==
    { k \in 1..Len(segments_in) :
        seg_end(k - 1) >= chunk_end(i - 1) /\ seg_end(k) <= chunk_end(i) }

RECURSIVE seg_tokens(_, _)
seg_tokens(a, b) ==
    IF a > b THEN 0 ELSE count_tokens(segments_in[a]) + seg_tokens(a + 1, b)

\* current_tokens of the buffer of chunk i when it was seeded with the overlap
seed_tokens(i) ==
    IF i = 1 THEN 0 ELSE count_tokens(get_overlap_text(result[i - 1].text))

first_seg(i) == CHOOSE k \in segs_of(i) : \A j \in segs_of(i) : k <= j

\* current_tokens of the buffer of chunk i right after segment k was appended
running_count(i, k) == seed_tokens(i) + seg_tokens(first_seg(i), k)

\* C24: at every level, once the running count of the buffer has reached
\* the target after a segment was appended (a sentence or paragraph of an
\* oversized unit included), the chunk is closed before a further segment
\* is appended: no chunk holds a segment that follows one with which the
\* running count had reached the target.
C24_TargetCheckedAfterEachSegment ==
    pc = "returned" =>
      \A i \in 1..Len(result) : \A k, j \in segs_of(i) :
        k < j => running_count(i, k) < target_tokens(level)


\* C27: every chunk that a level strategy emits, the final leftover
\* included, holds at least one source segment that is not part of the
\* preceding chunk: no chunk consists of the overlap tail alone.
C27_NoOverlapOnlyChunk ==
    pc = "returned" => \A i \in 1..Len(result) : segs_of(i) # {}


(***************************************************************************)
(* Properties of the two passes together and of the merged answer          *)
(***************************************************************************)
\* C25: when retrieve runs the time pass and the section pass on a query
\* that holds a time token and references a section (base scores within
\* [0, 1]), then in the list truncated to top_k, among candidates with the
\* same section-match flag, every candidate that holds a time token of the
\* query stands before every candidate that holds none.
C25_TimePromotionSurvives ==
    ( /\ pc = "ret_merge" /\ retriever = "hierarchical"
      /\ use_time_rerank /\ use_section_rerank
      /\ extract_time_tokens(query) # {}
      /\ extract_section_ids(query) # <<>> ) =>
      \A i, j \in 1..Len(final_results) :
        ( /\ referenced(final_results[i]) = referenced(final_results[j])
          /\ tokens_found(final_results[i]) >= 1
          /\ tokens_found(final_results[j]) = 0 ) => i < j


\* the places (result, entry) at which the candidate id stands in the answer
occurrences(id) ==
    { <<x, t>> \in (1..Len(merged_results)) \X (1..MaxCands) :
        t <= Len(ids_of(merged_results[x])) /\ ids_of(merged_results[x])[t] = id }

\* merged_count, 1 for a result that was not merged
count_of(r) == IF r.merged THEN r.merged_count ELSE 1

RECURSIVE sum_counts(_)
sum_counts(rs) == IF rs = <<>> THEN 0 ELSE count_of(rs[1]) + sum_counts(Tail(rs))

\* C26: when max_results is absent or at least the number of candidates
\* (whose ids are distinct), every candidate id stands exactly once in the
\* answer, as the id of an unmerged result or as one entry of one merged_ids,
\* no other id does, and the merged_count values (1 for an unmerged result)
\* add up to the number of candidates.
C26_MergeKeepsEveryCandidate ==
    ( /\ pc = "returned"
      /\ max_results = <<>> \/ max_results[1] >= Len(chunks) ) =>
      /\ \A i \in 1..Len(chunks) : Cardinality(occurrences(chunks[i].id)) = 1
      /\ \A x \in 1..Len(merged_results) :
           Range(ids_of(merged_results[x])) \subseteq {chunks[i].id : i \in 1..Len(chunks)}
      /\ sum_counts(merged_results) = Len(chunks)

\* three candidates, two of them merged, with max_results equal to their number
C26_Witness ==
    /\ pc = "returned" /\ Len(chunks) = 3 /\ max_results = <<3>>
    /\ Len(merged_results) = 2
    /\ \E x \in 1..2 : merged_results[x].merged /\ merged_results[x].merged_count = 2
    /\ \E x \in 1..2 : ~merged_results[x].merged


(***************************************************************************)
(* Properties of the chunk ids of a document                               *)
(***************************************************************************)
\* the section_id values that the document supplies are pairwise distinct
explicit_ids_distinct(secs) ==
    \A a, b \in 1..Len(secs) :
      (a # b /\ secs[a].section_id # <<>> /\ secs[b].section_id # <<>>)
        => secs[a].section_id # secs[b].section_id

\* C28: for a document whose explicitly supplied section_id values are
\* pairwise distinct (a section without one receiving the default), the
\* chunk_id values within one level are pairwise distinct.
C28_ChunkIdsDistinct ==
    (pc = "doc_returned" /\ explicit_ids_distinct(doc_sections(document))) =>
      \A lvl \in Levels :
        \A i, j \in 1..Len(doc_result[1].chunks[lvl]) :
          i # j => doc_result[1].chunks[lvl][i].chunk_id
                     # doc_result[1].chunks[lvl][j].chunk_id


\* the un-boosted similarity of the candidate `id`: 1 - distance
base_score(id) == <<100 - results.distances[fetched_pos(id)], 1>>

RECURSIVE base_sum(_)
base_sum(ids) == IF ids = <<>> THEN 0 ELSE base_score(ids[1])[1] + base_sum(Tail(ids))

\* C29: with auto-merge enabled, the list that HierarchicalRetriever.retrieve
\* returns is in non-increasing order of `score`; the score of a single
\* chunk is its un-boosted similarity and that of a merged result the mean
\* of the un-boosted similarities of its candidates; the rerank passes and
\* the truncation leave every candidate's `score` as the store gave it.
C29_MergedAnswerOrderedByScore ==
    (retriever = "hierarchical" /\ enable_auto_merge) =>
      /\ pc \in {"ret_time", "ret_section", "ret_truncate", "ret_merge"} =>
           /\ \A i \in 1..Len(formatted_results) :
                formatted_results[i].score = base_score(formatted_results[i].id)
           /\ \A i \in 1..Len(final_results) :
                final_results[i].score = base_score(final_results[i].id)
      /\ pc = "ret_returned" =>
           LET out == retrieved[1] IN
           /\ Len(out) = Len(final_results)
           /\ \A i \in 1..Len(out) :
                /\ out[i].score = final_results[i].score
                /\ out[i].score[1] * Len(ids_of(final_results[i]))
                     = base_sum(ids_of(final_results[i])) * out[i].score[2]
           /\ \A i, j \in 1..Len(out) :
                i < j => ~ScoreLess(out[i].score, out[j].score)

\* both passes reordered the candidates, two of them were merged, and the
\* merged result was returned behind a single chunk of a higher score
C29_Witness ==
    /\ pc = "ret_returned" /\ retriever = "hierarchical" /\ enable_auto_merge
    /\ use_time_rerank /\ use_section_rerank
    /\ ids_in(formatted_results) # results.ids
    /\ Len(retrieved[1]) = 2
    /\ final_results[2].merged /\ ~final_results[1].merged
    /\ ScoreLess(retrieved[1][2].score, retrieved[1][1].score)

====
